---- MODULE Spec2Model ----
(***************************************************************************)
(* Model of the outline aggregate of outline-mcp: TemplateBook             *)
(* (src/domain/model/book.rs) and TemplateNode (src/domain/model/node.rs). *)
(* The aggregate owns a map NodeId -> TemplateNode and an ordered list of  *)
(* root ids; add_node, update_node, move_node and remove_node are its only *)
(* mutators.  Each action below is one complete call of one of them.       *)
(***************************************************************************)
EXTENDS Integers, Sequences, FiniteSets, TLC

(* stored: whether the repository holds a saved book.  The book variables   *)
(* are that book where a repository is modelled, the book in memory        *)
(* elsewhere.                                                              *)
(* shelf_dir: the files of the shelf directory, by name, where the server  *)
(* or the file store is modelled; selected: OutlineMcpServer.selected;     *)
(* tasks: the calls of the file store under way.                           *)
VARIABLES stored, book_title, nodes, root_nodes, max_depth, last, shelf_dir, selected, tasks

vars == <<stored, book_title, nodes, root_nodes, max_depth, last, shelf_dir, selected, tasks>>

server_vars == <<shelf_dir, selected, tasks>>

(* no server and no file store: the aggregate or one service alone *)
NoServer == shelf_dir = <<>> /\ selected = <<>> /\ tasks = <<>>

(***************************************************************************)
(* Bounds of the model.                                                    *)
(***************************************************************************)
MaxNodes == 3
MaxDepthLimit == 3

(***************************************************************************)
(* Program constants.                                                      *)
(***************************************************************************)
U8Max == 255

None == 0
NodeIds == 1..MaxNodes
Positions == 0..(MaxNodes - 1)
NoText == "none"
Untouched == "untouched"

Min(a, b) == IF a < b THEN a ELSE b

(* u8::saturating_add / saturating_sub *)
saturating_add(a, b) == IF a + b > U8Max THEN U8Max ELSE a + b
saturating_sub(a, b) == IF a - b < 0 THEN 0 ELSE a - b

(* `a + b` on u8: an overflowing sum panics when overflow checks are on     *)
(* and wraps modulo 2^8 when they are off; both builds exist.              *)
add_u8(a, b) ==
    IF a + b > U8Max
    THEN {[panic |-> TRUE, value |-> 0], [panic |-> FALSE, value |-> (a + b) % (U8Max + 1)]}
    ELSE {[panic |-> FALSE, value |-> a + b]}

(* Vec::insert(pos, x), pos 0-based and pos <= len *)
VecInsert(s, pos, x) == SubSeq(s, 1, pos) \o <<x>> \o SubSeq(s, pos + 1, Len(s))

(* Vec::retain(|e| *e != x) *)
VecRetainNot(s, x) == SelectSeq(s, LAMBDA e : e # x)

Range(s) == {s[i] : i \in 1..Len(s)}

(***************************************************************************)
(* TemplateNode                                                            *)
(***************************************************************************)
TemplateNode_new(parent, title, node_type) ==
    [parent |-> parent, children |-> <<>>, title |-> title, body |-> NoText,
     node_type |-> node_type, placeholder |-> NoText]

set_title(node, title) == [node EXCEPT !.title = title]
set_body(node, body) == [node EXCEPT !.body = body]
set_node_type(node, node_type) == [node EXCEPT !.node_type = node_type]
set_placeholder(node, placeholder) == [node EXCEPT !.placeholder = placeholder]
set_parent(node, parent) == [node EXCEPT !.parent = parent]

(* add_child with a fault: the position is ignored, the child appended *)
add_child_appends(node, child_id, position) ==
    [node EXCEPT !.children = Append(@, child_id)]

add_child(node, child_id, position) ==
    LET pos == Min(position, Len(node.children))
    IN  [node EXCEPT !.children = VecInsert(@, pos, child_id)]

(* remove_child with a fault: the old parent keeps the child *)
remove_child_keeps(node, child_id) == node

remove_child(node, child_id) ==
    [node EXCEPT !.children = VecRetainNot(@, child_id)]

(***************************************************************************)
(* TemplateBook queries.  ns is the identifier -> node map of the book.    *)
(***************************************************************************)
HasParent(ns, id) == id \in DOMAIN ns /\ ns[id].parent # None

(* One iteration of the `while let Some(parent) = ...` loop of depth_of.   *)
(* st is the loop state: depth, current, and whether the loop has ended.   *)
DepthStep(ns, st) ==
    IF st.done THEN st
    ELSE IF HasParent(ns, st.current)
    THEN LET d == saturating_add(st.depth, 1)
         IN  IF d = U8Max
             THEN [depth |-> d, current |-> st.current, done |-> TRUE]
             ELSE [depth |-> d, current |-> ns[st.current].parent, done |-> FALSE]
    ELSE [st EXCEPT !.done = TRUE]

(* n iterations of the loop, split in halves to keep the evaluation shallow *)
RECURSIVE DepthLoop(_, _, _)
DepthLoop(ns, st, n) ==
    IF st.done \/ n = 0 THEN st
    ELSE IF n = 1 THEN DepthStep(ns, st)
    ELSE LET half == DepthLoop(ns, st, n \div 2)
         IN  DepthLoop(ns, half, n - (n \div 2))

(* The loop ends at the latest when depth reaches u8::MAX.  A walk that    *)
(* has not ended after more iterations than there are nodes is on a cycle  *)
(* of parent references, where only that cap ends it, with depth u8::MAX.  *)
depth_of(ns, id) ==
    LET st == DepthLoop(ns, [depth |-> 1, current |-> id, done |-> FALSE],
                        Min(U8Max, Cardinality(DOMAIN ns) + 1))
    IN  IF st.done THEN st.depth ELSE U8Max

(* One iteration of the ancestor walk of is_descendant_of.                 *)
DescendantStep(ns, st, ancestor) ==
    IF st.result # "run" THEN st
    ELSE IF HasParent(ns, st.current)
    THEN IF ns[st.current].parent = ancestor
         THEN [st EXCEPT !.result = "true"]
         ELSE [st EXCEPT !.current = ns[st.current].parent]
    ELSE [st EXCEPT !.result = "false"]

RECURSIVE DescendantLoop(_, _, _, _)
DescendantLoop(ns, st, ancestor, n) ==
    IF st.result # "run" \/ n = 0 THEN st
    ELSE IF n = 1 THEN DescendantStep(ns, st, ancestor)
    ELSE LET half == DescendantLoop(ns, st, ancestor, n \div 2)
         IN  DescendantLoop(ns, half, ancestor, n - (n \div 2))

(* The ancestor walk has no step limit: on a parent chain that runs into a *)
(* cycle not containing `ancestor` it never returns.  A walk that has not  *)
(* ended after more steps than there are nodes is such a walk ("diverge"). *)
is_descendant_of(ns, node, ancestor) ==
    LET st == DescendantLoop(ns, [current |-> node, result |-> "run"], ancestor,
                             Cardinality(DOMAIN ns) + 1)
    IN  IF st.result = "run" THEN "diverge" ELSE st.result

(* collect_descendants recurses over child lists without a visited set: it *)
(* overflows the stack iff a node is reached again below itself.           *)
RECURSIVE RecursionDiverges(_, _, _)
RecursionDiverges(ns, id, path) ==
    /\ id \in DOMAIN ns
    /\ \E i \in 1..Len(ns[id].children) :
          LET c == ns[id].children[i]
          IN  c \in path \cup {id} \/ RecursionDiverges(ns, c, path \cup {id})

RECURSIVE collect_descendants(_, _)
RECURSIVE CollectChildren(_, _, _)
CollectChildren(ns, kids, i) ==
    IF i > Len(kids) THEN <<>>
    ELSE <<kids[i]>> \o collect_descendants(ns, kids[i]) \o CollectChildren(ns, kids, i + 1)

(* collect_descendants with a fault: the children only, not their subtrees *)
collect_children_only(ns, id) ==
    IF id \in DOMAIN ns THEN ns[id].children ELSE <<>>

collect_descendants(ns, id) ==
    IF id \in DOMAIN ns THEN CollectChildren(ns, ns[id].children, 1) ELSE <<>>

RECURSIVE MaxDepthLoop(_, _, _, _)
MaxDepthLoop(ns, ds, i, max) ==
    IF i > Len(ds) THEN max
    ELSE LET d_depth == depth_of(ns, ds[i])
         IN  MaxDepthLoop(ns, ds, i + 1, IF d_depth > max THEN d_depth ELSE max)

subtree_max_depth(ns, root) ==
    MaxDepthLoop(ns, collect_descendants(ns, root), 1, depth_of(ns, root))

(***************************************************************************)
(* Results of a call.  err is "Ok", the DomainError variant returned,      *)
(* "Panic" (arithmetic overflow with overflow checks on) or "Diverge" (the *)
(* call never returns: endless ancestor walk or unbounded recursion).      *)
(* A call that does not return normally leaves the stored book as it was.  *)
(* The position and the request are recorded for the calls that succeed;   *)
(* n_before is node_count() before the call.                               *)
(***************************************************************************)
NoReq == [title |-> Untouched, body |-> Untouched, node_type |-> Untouched,
          placeholder |-> Untouched]

Result(op, err, id, parent, position, req, err_id) ==
    [op |-> op, err |-> err, id |-> id, parent |-> parent,
     position |-> IF err = "Ok" THEN position ELSE 0,
     req |-> IF err = "Ok" THEN req ELSE NoReq,
     err_id |-> err_id, max |-> max_depth, n_before |-> Cardinality(DOMAIN nodes)]

Errors == {"NodeNotFound", "MaxDepthExceeded", "CyclicMove"}

(***************************************************************************)
(* Inputs of the calls.  Identifiers are interchangeable, so update is     *)
(* driven on one of them; it is found or not as the node comes and goes.   *)
(***************************************************************************)
AddRequests ==
    { [title |-> "A", body |-> NoText, node_type |-> "Section", placeholder |-> NoText] }

UpdateRequests ==
    { NoReq,
      [title |-> "A", body |-> NoText, node_type |-> "Section", placeholder |-> NoText],
      [title |-> "B", body |-> "text", node_type |-> "Content", placeholder |-> "hint"] }

UpdateIds == {n \in NodeIds : \A m \in NodeIds : n <= m}

(* the title a book is created with; no operation of the book changes it *)
BookTitle == "Book"

(***************************************************************************)
(* TemplateBook::new                                                       *)
(***************************************************************************)
Init ==
    /\ NoServer
    /\ stored = TRUE
    /\ book_title = BookTitle
    /\ nodes = <<>>
    /\ root_nodes = <<>>
    /\ max_depth \in 1..MaxDepthLimit
    /\ last = [op |-> "new", err |-> "Ok", id |-> None, parent |-> None, position |-> 0,
               req |-> NoReq, err_id |-> None, max |-> max_depth, n_before |-> 0]

(***************************************************************************)
(* TemplateBook::add_node                                                  *)
(***************************************************************************)
new_depth_of_add(ns, parent) ==
    IF parent = None THEN {[panic |-> FALSE, value |-> 1]}
    ELSE add_u8(depth_of(ns, parent), 1)

(* add_node_insert with a fault: a root is pushed at the end of the root list *)
add_node_pushes_root(ns, roots, node_id, parent, req, position) ==
    LET node == set_placeholder(
                    set_body(TemplateNode_new(parent, req.title, req.node_type), req.body),
                    req.placeholder)
        ns1 == ns @@ (node_id :> node)
    IN  IF parent # None
        THEN [nodes |-> [ns1 EXCEPT ![parent] = add_child(@, node_id, position)],
              root_nodes |-> roots]
        ELSE [nodes |-> ns1, root_nodes |-> Append(roots, node_id)]

add_node_insert(ns, roots, node_id, parent, req, position) ==
    LET node == set_placeholder(
                    set_body(TemplateNode_new(parent, req.title, req.node_type), req.body),
                    req.placeholder)
        ns1 == ns @@ (node_id :> node)
    IN  IF parent # None
        THEN [nodes |-> [ns1 EXCEPT ![parent] = add_child(@, node_id, position)],
              root_nodes |-> roots]
        ELSE [nodes |-> ns1,
              root_nodes |-> VecInsert(roots, Min(position, Len(roots)), node_id)]

(* fresh: the identifiers NodeId::new() may return, none of them in use *)
AddNode(fresh, parent, req, position) ==
    /\ UNCHANGED <<server_vars, stored, book_title, max_depth>>
    /\ \E node_id \in fresh :
         IF parent # None /\ parent \notin DOMAIN nodes
         THEN /\ UNCHANGED <<nodes, root_nodes>>
              /\ last' = Result("add", "NodeNotFound", None, parent, position, req, parent)
         ELSE \E new_depth \in new_depth_of_add(nodes, parent) :
                IF new_depth.panic
                THEN /\ UNCHANGED <<nodes, root_nodes>>
                     /\ last' = Result("add", "Panic", None, parent, position, req, None)
                ELSE IF new_depth.value > max_depth
                THEN /\ UNCHANGED <<nodes, root_nodes>>
                     /\ last' = Result("add", "MaxDepthExceeded", None, parent, position,
                                       req, node_id)
                ELSE LET b == add_node_insert(nodes, root_nodes, node_id, parent, req,
                                              position)
                     IN  /\ nodes' = b.nodes
                         /\ root_nodes' = b.root_nodes
                         /\ last' = Result("add", "Ok", node_id, parent, position, req, None)

(***************************************************************************)
(* TemplateBook::update_node                                               *)
(***************************************************************************)
(* update_node_apply with a fault: a body given as absent is taken as omitted *)
update_node_keeps_body(node, req) ==
    LET n1 == IF req.title # Untouched THEN set_title(node, req.title) ELSE node
        n2 == IF req.body # Untouched /\ req.body # NoText THEN set_body(n1, req.body) ELSE n1
        n3 == IF req.node_type # Untouched THEN set_node_type(n2, req.node_type) ELSE n2
        n4 == IF req.placeholder # Untouched THEN set_placeholder(n3, req.placeholder) ELSE n3
    IN  n4

update_node_apply(node, req) ==
    LET n1 == IF req.title # Untouched THEN set_title(node, req.title) ELSE node
        n2 == IF req.body # Untouched THEN set_body(n1, req.body) ELSE n1
        n3 == IF req.node_type # Untouched THEN set_node_type(n2, req.node_type) ELSE n2
        n4 == IF req.placeholder # Untouched THEN set_placeholder(n3, req.placeholder) ELSE n3
    IN  n4

UpdateNode(id, req) ==
    /\ UNCHANGED <<server_vars, stored, book_title, root_nodes, max_depth>>
    /\ IF id \notin DOMAIN nodes
       THEN /\ UNCHANGED nodes
            /\ last' = Result("update", "NodeNotFound", id, None, 0, req, id)
       ELSE /\ nodes' = [nodes EXCEPT ![id] = update_node_apply(@, req)]
            /\ last' = Result("update", "Ok", id, None, 0, req, None)

(***************************************************************************)
(* TemplateBook::move_node                                                 *)
(***************************************************************************)
Verdict(err, err_id) == [err |-> err, err_id |-> err_id]

validate_move_depth(ns, id, new_parent) ==
    LET subtree_max == subtree_max_depth(ns, id)
        current_depth == depth_of(ns, id)
        new_base_depth == IF new_parent # None
                          THEN saturating_add(depth_of(ns, new_parent), 1)
                          ELSE 1
        depth_delta == saturating_sub(subtree_max, current_depth)
    IN  IF saturating_add(new_base_depth, depth_delta) > max_depth
        THEN Verdict("MaxDepthExceeded", id)
        ELSE Verdict("Ok", None)

validate_move_cycle(ns, id, new_parent) ==
    IF new_parent = None THEN "false" ELSE is_descendant_of(ns, new_parent, id)

validate_move(ns, id, new_parent) ==
    IF id \notin DOMAIN ns THEN Verdict("NodeNotFound", id)
    ELSE IF new_parent # None /\ new_parent \notin DOMAIN ns
    THEN Verdict("NodeNotFound", new_parent)
    ELSE LET cyc == validate_move_cycle(ns, id, new_parent)
         IN  IF cyc = "diverge" THEN Verdict("Diverge", None)
             ELSE IF cyc = "true" THEN Verdict("CyclicMove", id)
             ELSE IF RecursionDiverges(ns, id, {}) THEN Verdict("Diverge", None)
             ELSE validate_move_depth(ns, id, new_parent)

Book(err, err_id, ns, roots) ==
    [err |-> err, err_id |-> err_id, nodes |-> ns, root_nodes |-> roots]

detach_from_parent(ns, roots, id) ==
    IF id \notin DOMAIN ns THEN Book("NodeNotFound", id, ns, roots)
    ELSE LET old_parent == ns[id].parent
         IN  IF old_parent # None
             THEN IF old_parent \notin DOMAIN ns
                  THEN Book("NodeNotFound", old_parent, ns, roots)
                  ELSE Book("Ok", None, [ns EXCEPT ![old_parent] = remove_child(@, id)], roots)
             ELSE Book("Ok", None, ns, VecRetainNot(roots, id))

attach_to_parent(ns, roots, id, new_parent, position) ==
    IF id \notin DOMAIN ns THEN Book("NodeNotFound", id, ns, roots)
    ELSE LET ns1 == [ns EXCEPT ![id] = set_parent(@, new_parent)]
         IN  IF new_parent # None
             THEN IF new_parent \notin DOMAIN ns1
                  THEN Book("NodeNotFound", new_parent, ns1, roots)
                  ELSE Book("Ok", None,
                            [ns1 EXCEPT ![new_parent] = add_child(@, id, position)], roots)
             ELSE Book("Ok", None, ns1, VecInsert(roots, Min(position, Len(roots)), id))

(* move_node with a fault: the node is detached before the move is validated *)
move_node_detaches_first(ns, roots, id, new_parent, position) ==
    LET d == detach_from_parent(ns, roots, id)
        v == validate_move(ns, id, new_parent)
    IN  IF d.err # "Ok" THEN d
        ELSE IF v.err # "Ok" THEN Book(v.err, v.err_id, d.nodes, d.root_nodes)
        ELSE attach_to_parent(d.nodes, d.root_nodes, id, new_parent, position)

move_node(ns, roots, id, new_parent, position) ==
    LET v == validate_move(ns, id, new_parent)
    IN  IF v.err # "Ok" THEN Book(v.err, v.err_id, ns, roots)
        ELSE LET d == detach_from_parent(ns, roots, id)
             IN  IF d.err # "Ok" THEN d
                 ELSE attach_to_parent(d.nodes, d.root_nodes, id, new_parent, position)

MoveNode(id, new_parent, position) ==
    LET b == move_node(nodes, root_nodes, id, new_parent, position)
    IN  /\ nodes' = b.nodes
        /\ root_nodes' = b.root_nodes
        /\ UNCHANGED <<server_vars, stored, book_title, max_depth>>
        /\ last' = Result("move", b.err, id, new_parent, position, NoReq, b.err_id)

(***************************************************************************)
(* TemplateBook::remove_node                                               *)
(***************************************************************************)
(* remove_nodes with a fault: the nodes stay in the map *)
remove_nodes_keeps_all(ns, gone) == ns

remove_nodes(ns, gone) == [n \in DOMAIN ns \ gone |-> ns[n]]

remove_node(ns, roots, id) ==
    IF id \notin DOMAIN ns THEN Book("NodeNotFound", id, ns, roots)
    ELSE IF RecursionDiverges(ns, id, {}) THEN Book("Diverge", None, ns, roots)
    ELSE LET descendants == collect_descendants(ns, id)
             parent == ns[id].parent
         IN  IF parent # None
             THEN IF parent \notin DOMAIN ns
                  THEN Book("NodeNotFound", parent, ns, roots)
                  ELSE Book("Ok", None,
                            remove_nodes([ns EXCEPT ![parent] = remove_child(@, id)],
                                         {id} \cup Range(descendants)),
                            roots)
             ELSE Book("Ok", None, remove_nodes(ns, {id} \cup Range(descendants)),
                       VecRetainNot(roots, id))

RemoveNode(id) ==
    LET b == remove_node(nodes, root_nodes, id)
    IN  /\ nodes' = b.nodes
        /\ root_nodes' = b.root_nodes
        /\ UNCHANGED <<server_vars, stored, book_title, max_depth>>
        /\ last' = Result("remove", b.err, id, None, 0, NoReq, b.err_id)

(***************************************************************************)
(* The aggregate under any sequence of calls.                              *)
(***************************************************************************)
Next ==
    \/ \E parent \in NodeIds \cup {None}, req \in AddRequests, position \in Positions :
          AddNode(NodeIds \ DOMAIN nodes, parent, req, position)
    \/ \E id \in UpdateIds, req \in UpdateRequests : UpdateNode(id, req)
    \/ \E id \in NodeIds, new_parent \in NodeIds \cup {None}, position \in Positions :
          MoveNode(id, new_parent, position)
    \/ \E id \in NodeIds : RemoveNode(id)

Spec == Init /\ [][Next]_vars

(***************************************************************************)
(* Notions the properties below are stated in.                             *)
(***************************************************************************)
Occurrences(s, x) == Cardinality({i \in 1..Len(s) : s[i] = x})

(* the nodes reached from id by following parent references, 1 step or more *)
AncestorStep(ns, st) ==
    IF st.done THEN st
    ELSE IF HasParent(ns, st.current) /\ ns[st.current].parent \notin st.seen
    THEN [current |-> ns[st.current].parent, seen |-> st.seen \cup {ns[st.current].parent},
          done |-> FALSE]
    ELSE [st EXCEPT !.done = TRUE]

RECURSIVE AncestorLoop(_, _, _)
AncestorLoop(ns, st, n) ==
    IF st.done \/ n = 0 THEN st
    ELSE IF n = 1 THEN AncestorStep(ns, st)
    ELSE LET half == AncestorLoop(ns, st, n \div 2)
         IN  AncestorLoop(ns, half, n - (n \div 2))

Ancestors(ns, id) ==
    AncestorLoop(ns, [current |-> id, seen |-> {}, done |-> FALSE],
                 Cardinality(DOMAIN ns) + 1).seen

(* depth in the tree: 1 for a root, the parent's depth + 1 otherwise *)
TreeDepth(ns, id) == Cardinality(Ancestors(ns, id)) + 1

Descendants(ns, id) == {n \in DOMAIN ns : id \in Ancestors(ns, n)}

LinksAgree(ns, roots) ==
    /\ \A P \in DOMAIN ns : \A N \in Range(ns[P].children) \cup DOMAIN ns :
          /\ (N \in DOMAIN ns /\ ns[N].parent = P) <=> (N \in Range(ns[P].children))
          /\ Occurrences(ns[P].children, N) <= 1
    /\ \A N \in Range(roots) \cup DOMAIN ns :
          /\ (N \in DOMAIN ns /\ ns[N].parent = None) <=> (N \in Range(roots))
          /\ Occurrences(roots, N) <= 1

NoDangling(ns, roots) ==
    /\ \A n \in DOMAIN ns : ns[n].parent # None => ns[n].parent \in DOMAIN ns
    /\ \A n \in DOMAIN ns : Range(ns[n].children) \subseteq DOMAIN ns
    /\ Range(roots) \subseteq DOMAIN ns

NoCycle(ns) == \A n \in DOMAIN ns : n \notin Ancestors(ns, n)

WellFormed(ns, roots) == LinksAgree(ns, roots) /\ NoDangling(ns, roots) /\ NoCycle(ns)

(***************************************************************************)
(* C1: after any sequence of add, update, move and remove calls on a book  *)
(* created empty with maximum depth M, every node n has                    *)
(* 1 <= depth_of(n) <= M.                                                  *)
(***************************************************************************)
C1_DepthWithinMax ==
    \A n \in DOMAIN nodes : 1 <= depth_of(nodes, n) /\ depth_of(nodes, n) <= max_depth

(***************************************************************************)
(* C2: on a well-formed book, move(id, new_parent, position) of an         *)
(* existing id fails with CyclicMove whenever new_parent is id itself or a *)
(* descendant of id.                                                       *)
(***************************************************************************)
C2_CyclicMoveRejected ==
    [][(/\ last'.op = "move"
        /\ WellFormed(nodes, root_nodes)
        /\ last'.id \in DOMAIN nodes
        /\ last'.parent \in {last'.id} \cup Descendants(nodes, last'.id))
       => last'.err = "CyclicMove"]_vars

(***************************************************************************)
(* C3: after any sequence of calls the parent/child graph is acyclic: no   *)
(* node is its own ancestor.                                               *)
(***************************************************************************)
C3_Acyclic == NoCycle(nodes)

(***************************************************************************)
(* C4: parent references and child lists agree in every reachable state:   *)
(* N has parent P iff P's child list contains N, and then exactly once; N  *)
(* is in the root list iff N has no parent, and then exactly once.         *)
(***************************************************************************)
C4_LinksAgree == LinksAgree(nodes, root_nodes)

C4_Witness ==
    /\ last.op = "move" /\ last.err = "Ok" /\ last.parent # None
    /\ last.parent # last.id
    /\ \E n \in DOMAIN nodes : Len(nodes[n].children) >= 2

(***************************************************************************)
(* C5: after every completed call, every identifier that appears as a      *)
(* parent, in a child list or in the root list is a key of the node map.   *)
(***************************************************************************)
C5_NoDangling == NoDangling(nodes, root_nodes)

C5_Witness ==
    /\ last.op = "remove" /\ last.err = "Ok"
    /\ last.n_before - Cardinality(DOMAIN nodes) >= 2
    /\ nodes # <<>>

(***************************************************************************)
(* C6: a call that returns an error (NodeNotFound, MaxDepthExceeded or     *)
(* CyclicMove) leaves the node map and the root list exactly as they were. *)
(***************************************************************************)
C6_ErrorLeavesBookUnchanged ==
    [][last'.err \in Errors => (nodes' = nodes /\ root_nodes' = root_nodes)]_vars

C6_Witness ==
    /\ last.op = "move" /\ last.err = "MaxDepthExceeded"
    /\ Cardinality(DOMAIN nodes) >= 2

(***************************************************************************)
(* The sibling list a node id is in (ChildList) or would be in under       *)
(* parent p: p's child list, or the root list when p is absent.            *)
(***************************************************************************)
SiblingList(ns, roots, p) == IF p = None THEN roots ELSE ns[p].children

IndexOf(s, x) == CHOOSE i \in 0..Len(s) : (i = 0 /\ x \notin Range(s)) \/ (i > 0 /\ s[i] = x)

RemoveEffect(id) ==
    LET gone == {id} \cup Descendants(nodes, id)
        p == nodes[id].parent
    IN  /\ last'.err = "Ok"
        /\ DOMAIN nodes' = DOMAIN nodes \ gone
        /\ Cardinality(DOMAIN nodes') = Cardinality(DOMAIN nodes) - Cardinality(gone)
        /\ \A n \in DOMAIN nodes' :
              IF n = p THEN nodes'[n] = [nodes[n] EXCEPT !.children = VecRetainNot(@, id)]
              ELSE nodes'[n] = nodes[n]
        /\ root_nodes' = IF p = None THEN VecRetainNot(root_nodes, id) ELSE root_nodes

(***************************************************************************)
(* C9: remove(id) of an existing node deletes exactly id and its           *)
(* descendants from the node map (the count drops by 1 + the number of     *)
(* descendants), takes id out of its former parent's child list or the     *)
(* root list, and leaves every other node, its links and the order of the  *)
(* remaining siblings unchanged; remove of an unknown id fails with        *)
(* NodeNotFound.                                                           *)
(***************************************************************************)
C9_RemoveDeletesSubtree ==
    [][last'.op = "remove" =>
         IF last'.id \in DOMAIN nodes THEN RemoveEffect(last'.id)
         ELSE last'.err = "NodeNotFound"]_vars

MoveEffect(id, new_parent, position) ==
    LET old_parent == nodes[id].parent
        k == Len(VecRetainNot(SiblingList(nodes, root_nodes, new_parent), id))
        dest == SiblingList(nodes', root_nodes', new_parent)
    IN  /\ nodes'[id].parent = new_parent
        /\ old_parent # new_parent =>
              id \notin Range(SiblingList(nodes', root_nodes', old_parent))
        /\ IndexOf(dest, id) = Min(position, k) + 1
        /\ Occurrences(dest, id) = 1

(***************************************************************************)
(* C10: after a successful move(id, new_parent, position), id's parent is  *)
(* new_parent, id is no longer in its former sibling list unless that is   *)
(* the destination, and id sits at index min(position, k) of the           *)
(* destination list, k being the entries of that list other than id.       *)
(***************************************************************************)
C10_MovePlacesNode ==
    [][(last'.op = "move" /\ last'.err = "Ok") =>
         MoveEffect(last'.id, last'.parent, last'.position)]_vars

C10_Witness ==
    /\ last.op = "move" /\ last.err = "Ok"
    /\ last.parent # None /\ last.parent # last.id
    /\ last.position = 1
    /\ Len(nodes[last.parent].children) = 2
    /\ nodes[last.parent].children[2] = last.id

(***************************************************************************)
(* The aggregate at the largest maximum depth a book can declare           *)
(* (max_depth is a u8).  A chain is grown from the first root by adding    *)
(* under its end; once the book holds DeepWindow nodes, further roots are  *)
(* added, leaf roots are moved, and the node added last is removed while   *)
(* it is a leaf.                                                           *)
(***************************************************************************)
DeepNodes == 257
DeepRoots == 2
DeepWindow == 253

DeepIds == 1..DeepNodes

DeepFresh ==
    {n \in DeepIds \ DOMAIN nodes : \A m \in DeepIds \ DOMAIN nodes : n <= m}

DeepLeaves == {n \in DOMAIN nodes : nodes[n].children = <<>>}

(* the end of the chain *)
DeepTail ==
    {n \in DeepLeaves : nodes[n].parent # None \/ n = root_nodes[1]}

(* the node added last: identifiers are handed out in increasing order *)
DeepNewest == {n \in DOMAIN nodes : \A m \in DOMAIN nodes : m <= n}

InDeepWindow == Cardinality(DOMAIN nodes) >= DeepWindow

DeepRequest ==
    [title |-> "A", body |-> NoText, node_type |-> "Section", placeholder |-> NoText]

DeepInit ==
    /\ NoServer
    /\ stored = TRUE
    /\ book_title = BookTitle
    /\ nodes = <<>>
    /\ root_nodes = <<>>
    /\ max_depth = U8Max
    /\ last = [op |-> "new", err |-> "Ok", id |-> None, parent |-> None, position |-> 0,
               req |-> NoReq, err_id |-> None, max |-> max_depth, n_before |-> 0]

DeepNext ==
    \/ \E parent \in DeepTail \cup {p \in {None} : nodes = <<>>} :
          AddNode(DeepFresh, parent, DeepRequest, 0)
    \/ /\ InDeepWindow
       /\ Len(root_nodes) < DeepRoots
       /\ AddNode(DeepFresh, None, DeepRequest, 0)
    \/ /\ InDeepWindow
       /\ \E id \in DeepLeaves \cap Range(root_nodes) :
             \E new_parent \in (DeepTail \cup {None}) \ {id} : MoveNode(id, new_parent, 0)
    \/ /\ InDeepWindow
       /\ \E id \in DeepLeaves \cap DeepNewest : RemoveNode(id)

SpecDeep == DeepInit /\ [][DeepNext]_vars

(***************************************************************************)
(* The nodes of the subtree of id: id and everything below it.             *)
(***************************************************************************)
RECURSIVE SubtreeFrom(_, _, _)
SubtreeFrom(ns, todo, seen) ==
    IF todo = {} THEN seen
    ELSE LET kids == UNION {Range(ns[n].children) : n \in todo \cap DOMAIN ns}
         IN  SubtreeFrom(ns, kids \ (seen \cup todo), seen \cup todo)

SubtreeBelow(ns, id) == SubtreeFrom(ns, {id}, {})

MaxOf(S) == CHOOSE x \in S : \A y \in S : y <= x

MoveWouldExceed(id, new_parent) ==
    LET base == IF new_parent = None THEN 1 ELSE TreeDepth(nodes, new_parent) + 1
        deepest == MaxOf({TreeDepth(nodes, n) : n \in SubtreeBelow(nodes, id)})
    IN  base + (deepest - TreeDepth(nodes, id)) > max_depth

(***************************************************************************)
(* C7: for an existing id and a new_parent that is absent, or exists and   *)
(* is neither id nor a descendant of id, move fails with MaxDepthExceeded  *)
(* (carrying id and the maximum) iff some node of id's subtree would end   *)
(* up deeper than the maximum, and succeeds otherwise.                     *)
(***************************************************************************)
C7_MoveDepthCheck ==
    [][(/\ last'.op = "move"
        /\ last'.id \in DOMAIN nodes
        /\ \/ last'.parent = None
           \/ /\ last'.parent \in DOMAIN nodes
              /\ last'.parent # last'.id
              /\ last'.id \notin Ancestors(nodes, last'.parent))
       => IF MoveWouldExceed(last'.id, last'.parent)
          THEN last'.err = "MaxDepthExceeded" /\ last'.err_id = last'.id
               /\ last'.max = max_depth
          ELSE last'.err = "Ok"]_vars

(***************************************************************************)
(* C8: add computes depth 1 without a parent and depth(parent) + 1 under   *)
(* an existing parent; when that exceeds the maximum M the call fails with *)
(* MaxDepthExceeded carrying max = M and nothing is inserted or linked;    *)
(* otherwise the node is inserted.                                         *)
(***************************************************************************)
C8_AddDepthCheck ==
    [][(last'.op = "add" /\ (last'.parent = None \/ last'.parent \in DOMAIN nodes))
       => IF (IF last'.parent = None THEN 1 ELSE TreeDepth(nodes, last'.parent) + 1)
               > max_depth
          THEN /\ last'.err = "MaxDepthExceeded" /\ last'.max = max_depth
               /\ nodes' = nodes /\ root_nodes' = root_nodes
          ELSE /\ last'.err = "Ok"
               /\ last'.id \in DOMAIN nodes' \ DOMAIN nodes]_vars

(***************************************************************************)
(* The aggregate under add, update and remove with requests that differ in *)
(* every attribute.  Identifiers are handed out in increasing order of the *)
(* unused ones; update is driven on UpdateIds.                             *)
(***************************************************************************)
EditAddRequests ==
    { [title |-> "A", body |-> NoText, node_type |-> "Section", placeholder |-> NoText],
      [title |-> "B", body |-> "text", node_type |-> "Content", placeholder |-> "hint"] }

EditUpdateRequests ==
    [title : {Untouched, "B"}, body : {Untouched, NoText, "text"},
     node_type : {Untouched, "Content"}, placeholder : {Untouched, NoText, "hint"}]

EditFresh ==
    {n \in NodeIds \ DOMAIN nodes : \A m \in NodeIds \ DOMAIN nodes : n <= m}

EditInit == Init

EditNext ==
    \/ \E parent \in NodeIds \cup {None}, req \in EditAddRequests, position \in Positions :
          AddNode(EditFresh, parent, req, position)
    \/ \E id \in UpdateIds, req \in EditUpdateRequests : UpdateNode(id, req)
    \/ \E id \in NodeIds : RemoveNode(id)

SpecEdit == EditInit /\ [][EditNext]_vars

AddEffect(id, parent, position, req) ==
    LET before == SiblingList(nodes, root_nodes, parent)
        after == SiblingList(nodes', root_nodes', parent)
        k == Len(before)
    IN  /\ id \notin DOMAIN nodes
        /\ id \in DOMAIN nodes'
        /\ nodes'[id].children = <<>>
        /\ nodes'[id].parent = parent
        /\ nodes'[id].title = req.title
        /\ nodes'[id].node_type = req.node_type
        /\ nodes'[id].body = req.body
        /\ nodes'[id].placeholder = req.placeholder
        /\ Len(after) = k + 1
        /\ after[Min(position, k) + 1] = id
        /\ VecRetainNot(after, id) = before

(***************************************************************************)
(* C11: a successful add with position p returns an identifier that was    *)
(* not in the book and inserts the new node, with no children and the      *)
(* title, type, body and placeholder of the request, at index min(p, k) of *)
(* its parent's child list (of the root list without a parent), k being    *)
(* the sibling count before the call; the siblings that were there keep    *)
(* their relative order.                                                   *)
(***************************************************************************)
C11_AddInsertsNode ==
    [][(last'.op = "add" /\ last'.err = "Ok") =>
         AddEffect(last'.id, last'.parent, last'.position, last'.req)]_vars

C11_Witness ==
    /\ last.op = "add" /\ last.err = "Ok"
    /\ last.parent = None /\ last.position = 1
    /\ last.req.body = "text"
    /\ Len(root_nodes) = 3 /\ root_nodes[2] = last.id

UpdateField(before, after, given) == after = IF given = Untouched THEN before ELSE given

UpdateEffect(id, req) ==
    /\ last'.err = "Ok"
    /\ DOMAIN nodes' = DOMAIN nodes
    /\ root_nodes' = root_nodes
    /\ \A n \in DOMAIN nodes \ {id} : nodes'[n] = nodes[n]
    /\ nodes'[id].parent = nodes[id].parent
    /\ nodes'[id].children = nodes[id].children
    /\ UpdateField(nodes[id].title, nodes'[id].title, req.title)
    /\ UpdateField(nodes[id].node_type, nodes'[id].node_type, req.node_type)
    /\ UpdateField(nodes[id].body, nodes'[id].body, req.body)
    /\ UpdateField(nodes[id].placeholder, nodes'[id].placeholder, req.placeholder)

(***************************************************************************)
(* C12: update(id, request) of an existing node changes exactly the fields *)
(* present in the request: title and type take the given value, body and   *)
(* placeholder take the given value or are cleared when given as absent;   *)
(* an omitted field keeps its value; no parent, child list, root list or   *)
(* other node changes, and the type may change whether or not the node has *)
(* children.  update of an unknown id fails with NodeNotFound.             *)
(***************************************************************************)
C12_UpdateChangesGivenFields ==
    [][last'.op = "update" =>
         IF last'.id \in DOMAIN nodes THEN UpdateEffect(last'.id, last'.req)
         ELSE last'.err = "NodeNotFound" /\ nodes' = nodes /\ root_nodes' = root_nodes]_vars

C12_Witness ==
    /\ last.op = "update" /\ last.err = "Ok"
    /\ last.req.body = NoText /\ last.req.title = Untouched
    /\ last.req.node_type = "Content" /\ last.req.placeholder = "hint"
    /\ nodes[last.id].children # <<>>
    /\ nodes[last.id].title = "B" /\ nodes[last.id].body = NoText

(***************************************************************************)
(* The tree codec (src/application/eject.rs).  An EjectTree is a record    *)
(* [title, max_depth, nodes]; an EjectTreeNode is a record [id, title,     *)
(* node_type, body, placeholder, children] whose id and node_type are      *)
(* text.                                                                   *)
(***************************************************************************)
IMPORT_MAX_RECURSION == 32

(* usize::MAX: beyond the length of every list *)
usize_MAX == 2147483647

NestingMessage == "maximum import nesting depth exceeded"

(* NodeId's Display: the text of the identifier *)
NodeIdText(id) == "id-" \o ToString(id)

EjectTree(t, max, ns) == [title |-> t, max_depth |-> max, nodes |-> ns]

EjectTreeNode(id, t, tag, body, placeholder, children) ==
    [id |-> id, title |-> t, node_type |-> tag, body |-> body,
     placeholder |-> placeholder, children |-> children]

TypeTag(node_type) == IF node_type = "Section" THEN "section" ELSE "content"

(* build_tree_node yields a list of no or one node (an Option under        *)
(* filter_map); build_tree_nodes is the filter_map over a list of ids.     *)
RECURSIVE build_tree_node(_, _), build_tree_nodes(_, _)
build_tree_node(ns, id) ==
    IF id \notin DOMAIN ns THEN <<>>
    ELSE << EjectTreeNode(NodeIdText(id), ns[id].title, TypeTag(ns[id].node_type),
                          ns[id].body, ns[id].placeholder,
                          build_tree_nodes(ns, ns[id].children)) >>

build_tree_nodes(ns, ids) ==
    IF ids = <<>> THEN <<>>
    ELSE build_tree_node(ns, Head(ids)) \o build_tree_nodes(ns, Tail(ids))

(* err is "Diverge" when the recursion over the children never ends *)
build_tree(t, max, ns, roots, subtree_root) ==
    LET root_ids == IF subtree_root # None
                    THEN IF subtree_root \in DOMAIN ns THEN ns[subtree_root].children
                         ELSE <<>>
                    ELSE roots
        tree_title == IF subtree_root # None /\ subtree_root \in DOMAIN ns
                      THEN ns[subtree_root].title
                      ELSE t
    IN  IF \E r \in Range(root_ids) : r \in DOMAIN ns /\ RecursionDiverges(ns, r, {})
        THEN [err |-> "Diverge", tree |-> EjectTree(tree_title, max, <<>>)]
        ELSE [err |-> "Ok", tree |-> EjectTree(tree_title, max, build_tree_nodes(ns, root_ids))]

(* TemplateBook::add_node as a function of the book: the outcomes of one   *)
(* call that takes node_id from NodeId::new().                             *)
add_node(ns, roots, max, node_id, parent, req, position) ==
    IF parent # None /\ parent \notin DOMAIN ns
    THEN {Book("NodeNotFound", parent, ns, roots)}
    ELSE { IF new_depth.panic THEN Book("Panic", None, ns, roots)
           ELSE IF new_depth.value > max THEN Book("MaxDepthExceeded", node_id, ns, roots)
           ELSE LET b == add_node_insert(ns, roots, node_id, parent, req, position)
                IN  Book("Ok", None, b.nodes, b.root_nodes)
           : new_depth \in new_depth_of_add(ns, parent) }

ImportTypes == {"section", "content", "checklist", "reference", "runnable"}

(* import_node_type with a fault: only content maps to Content *)
import_type_content_only(tag) == IF tag = "content" THEN "Content" ELSE "Section"

import_node_type(tag) == IF tag = "section" THEN "Section" ELSE "Content"

(* The state of an import under way: the book built so far, the number of  *)
(* identifiers taken, the error that ended it (detail is the text an       *)
(* ImportInvalidType carries, err_id the node of a DomainError), and the   *)
(* calls of import_tree_node still to be made, in the order the recursion  *)
(* makes them: each names the parent, the tree node and the depth passed.  *)
ImportState(err, detail, err_id, ns, roots, used, todo) ==
    [err |-> err, detail |-> detail, err_id |-> err_id, nodes |-> ns,
     root_nodes |-> roots, used |-> used, todo |-> todo]

ImportCalls(parent, tree_nodes, depth) ==
    [i \in 1..Len(tree_nodes) |-> [parent |-> parent, node |-> tree_nodes[i], depth |-> depth]]

(* import_request with a fault: the node is inserted in front of its siblings *)
import_request_in_front(tree_node) ==
    [title |-> tree_node.title, node_type |-> import_node_type(tree_node.node_type),
     body |-> tree_node.body, placeholder |-> tree_node.placeholder, position |-> 0]

(* the AddNodeRequest import_tree_node makes for a tree node *)
import_request(tree_node) ==
    [title |-> tree_node.title, node_type |-> import_node_type(tree_node.node_type),
     body |-> tree_node.body, placeholder |-> tree_node.placeholder,
     position |-> usize_MAX]

(* import_tree_node for the next call to be made: fresh lists the          *)
(* identifiers NodeId::new() returns, in the order of the calls.  The      *)
(* calls for the children come before the calls still pending, and the     *)
(* first error ends the import.                                            *)
import_tree_node(st, max, fresh) ==
    IF st.err # "Ok" \/ st.todo = <<>> THEN st
    ELSE LET call == Head(st.todo)
             tree_node == call.node
         IN  IF call.depth >= IMPORT_MAX_RECURSION
             THEN [st EXCEPT !.err = "ImportInvalidType", !.detail = NestingMessage]
             ELSE IF tree_node.node_type \notin ImportTypes
             THEN [st EXCEPT !.err = "ImportInvalidType", !.detail = tree_node.node_type]
             ELSE LET id == fresh[st.used + 1]
                      req == import_request(tree_node)
                      outs == add_node(st.nodes, st.root_nodes, max, id, call.parent, req,
                                       req.position)
                      out == IF \E o \in outs : o.err = "Panic"
                             THEN CHOOSE o \in outs : o.err = "Panic"
                             ELSE CHOOSE o \in outs : TRUE
                  IN  IF out.err # "Ok"
                      THEN [st EXCEPT !.err = out.err, !.err_id = out.err_id]
                      ELSE ImportState("Ok", NoText, None, out.nodes, out.root_nodes,
                                       st.used + 1,
                                       ImportCalls(id, tree_node.children, call.depth + 1)
                                       \o Tail(st.todo))

(* n calls of import_tree_node, one after the other *)
RECURSIVE ImportLoop(_, _, _, _)
ImportLoop(st, max, fresh, n) ==
    IF st.err # "Ok" \/ n = 0 THEN st
    ELSE IF n = 1 THEN import_tree_node(st, max, fresh)
    ELSE LET half == ImportLoop(st, max, fresh, n \div 2)
         IN  ImportLoop(half, max, fresh, n - (n \div 2))

(* every call takes an identifier or ends the import *)
import_tree(tree, fresh) ==
    ImportLoop(ImportState("Ok", NoText, None, <<>>, <<>>, 0, ImportCalls(None, tree.nodes, 0)),
               tree.max_depth, fresh, Len(fresh) + 1)

(* collect_subtree_dfs and all_nodes_dfs, as the identifiers of the nodes *)
RECURSIVE collect_subtree_dfs(_, _), collect_subtrees_dfs(_, _)
collect_subtree_dfs(ns, id) ==
    IF id \notin DOMAIN ns THEN <<>>
    ELSE <<id>> \o collect_subtrees_dfs(ns, ns[id].children)

collect_subtrees_dfs(ns, ids) ==
    IF ids = <<>> THEN <<>>
    ELSE collect_subtree_dfs(ns, Head(ids)) \o collect_subtrees_dfs(ns, Tail(ids))

all_nodes_dfs(ns, roots) == collect_subtrees_dfs(ns, roots)

(***************************************************************************)
(* The orders in which NodeId::new() may hand out n identifiers.           *)
(***************************************************************************)
FreshOrders(ids, n) ==
    {f \in [1..n -> ids] : \A i, j \in 1..n : f[i] = f[j] => i = j}

(* Two books agree in shape and content: the same counts, and node for    *)
(* node in depth-first order the same attributes, number of children and  *)
(* place of the parent.                                                   *)
SameShape(ns1, roots1, ns2, roots2) ==
    LET d1 == all_nodes_dfs(ns1, roots1)
        d2 == all_nodes_dfs(ns2, roots2)
    IN  /\ Cardinality(DOMAIN ns1) = Cardinality(DOMAIN ns2)
        /\ Len(roots1) = Len(roots2)
        /\ Len(d1) = Cardinality(DOMAIN ns1)
        /\ Len(d2) = Len(d1)
        /\ \A i \in 1..Len(d1) :
              /\ ns1[d1[i]].title = ns2[d2[i]].title
              /\ ns1[d1[i]].body = ns2[d2[i]].body
              /\ ns1[d1[i]].placeholder = ns2[d2[i]].placeholder
              /\ ns1[d1[i]].node_type = ns2[d2[i]].node_type
              /\ Len(ns1[d1[i]].children) = Len(ns2[d2[i]].children)
              /\ IndexOf(d1, ns1[d1[i]].parent) = IndexOf(d2, ns2[d2[i]].parent)

(***************************************************************************)
(* C13: for every book reachable through add, update, move and remove,     *)
(* importing its whole-tree export succeeds and yields a book with the     *)
(* same title, maximum depth, node count, root count and parent/child      *)
(* shape, whose nodes match the original node for node in depth-first      *)
(* order on title, body, placeholder and type, whatever identifiers the    *)
(* import hands out.                                                       *)
(***************************************************************************)
C13_ExportImportRoundTrip ==
    LET ex == build_tree(book_title, max_depth, nodes, root_nodes, None)
    IN  /\ ex.err = "Ok"
        /\ \A fresh \in FreshOrders(NodeIds, MaxNodes) :
              LET im == import_tree(ex.tree, fresh)
              IN  /\ im.err = "Ok"
                  /\ ex.tree.title = book_title
                  /\ ex.tree.max_depth = max_depth
                  /\ SameShape(nodes, root_nodes, im.nodes, im.root_nodes)

(***************************************************************************)
(* Import and export.  A caller holds a serializable tree and the          *)
(* identifiers NodeId::new() is going to return; import_tree builds the    *)
(* book from it, and the book returned is then exported whole or from one  *)
(* of its nodes.  The trees are all forests of up to CodecNodes nodes over *)
(* NodeProfiles, declaring a maximum depth in CodecDepths, and the chains  *)
(* of ChainLengths nested nodes declaring a depth in ChainDepths.          *)
(***************************************************************************)
CodecNodes == 3

CodecIds == 1..CodecNodes

CodecDepths == {1, 2, 3}

(* the identifiers in increasing and in decreasing order *)
CodecOrders ==
    { [i \in 1..CodecNodes |-> i], [i \in 1..CodecNodes |-> CodecNodes + 1 - i] }

NodeProfiles ==
    { [id |-> NodeIdText(1), title |-> "A", node_type |-> "section", body |-> NoText,
       placeholder |-> NoText],
      [id |-> "dummy", title |-> "B", node_type |-> "content", body |-> "text",
       placeholder |-> "hint"],
      [id |-> "dummy", title |-> "A", node_type |-> "checklist", body |-> "text",
       placeholder |-> NoText],
      [id |-> "dummy", title |-> "A", node_type |-> "reference", body |-> NoText,
       placeholder |-> NoText],
      [id |-> "dummy", title |-> "A", node_type |-> "runnable", body |-> NoText,
       placeholder |-> NoText],
      [id |-> "dummy", title |-> "A", node_type |-> "unknown_type", body |-> NoText,
       placeholder |-> NoText] }

RECURSIVE ForestsOf(_)
ForestsOf(n) ==
    IF n = 0 THEN {<<>>}
    ELSE UNION { { <<EjectTreeNode(p.id, p.title, p.node_type, p.body, p.placeholder, c)>> \o f :
                     p \in NodeProfiles, c \in ForestsOf(k - 1), f \in ForestsOf(n - k) }
                 : k \in 1..n }

SmallTrees ==
    { EjectTree("Imported", d, f) : d \in CodecDepths,
                                    f \in UNION {ForestsOf(n) : n \in 0..CodecNodes} }

DeepNesting == 40

ChainLengths == {IMPORT_MAX_RECURSION, IMPORT_MAX_RECURSION + 1, DeepNesting}

ChainDepths == {4, IMPORT_MAX_RECURSION - 1, IMPORT_MAX_RECURSION, 50}

(* a chain of n nested nodes, sections above a content leaf *)
RECURSIVE ChainNode(_)
ChainNode(n) ==
    IF n = 1 THEN EjectTreeNode("leaf", "Leaf", "content", NoText, NoText, <<>>)
    ELSE EjectTreeNode("level", "Level", "section", NoText, NoText, <<ChainNode(n - 1)>>)

ChainTrees == { EjectTree("Deep", d, <<ChainNode(n)>>) : n \in ChainLengths, d \in ChainDepths }

ImportInputs ==
    { [tree |-> x, fresh |-> f] : x \in SmallTrees, f \in CodecOrders }
    \cup { [tree |-> x, fresh |-> [i \in 1..DeepNesting |-> i]] : x \in ChainTrees }

(* import_tree after TemplateBook::new(tree.title, tree.max_depth) *)
CodecInit ==
    \E input \in ImportInputs :
       /\ NoServer
    /\ stored = TRUE
       /\ book_title = input.tree.title
       /\ max_depth = input.tree.max_depth
       /\ nodes = <<>>
       /\ root_nodes = <<>>
       /\ last = [op |-> "input", err |-> "Ok", source |-> input.tree, fresh |-> input.fresh]

(* the loop of import_tree; an error returns no book *)
Import ==
    /\ last.op = "input"
    /\ LET im == import_tree(last.source, last.fresh)
       IN  /\ nodes' = IF im.err = "Ok" THEN im.nodes ELSE <<>>
           /\ root_nodes' = IF im.err = "Ok" THEN im.root_nodes ELSE <<>>
           /\ last' = [op |-> "import", err |-> im.err, detail |-> im.detail,
                       err_id |-> im.err_id, inserted |-> im.used, source |-> last.source]
    /\ UNCHANGED <<server_vars, stored, book_title, max_depth>>

Export(subtree_root) ==
    /\ last.op \in {"import", "export"}
    /\ last.err = "Ok"
    /\ LET ex == build_tree(book_title, max_depth, nodes, root_nodes, subtree_root)
       IN  last' = [op |-> "export", err |-> ex.err, subtree_root |-> subtree_root,
                    tree |-> ex.tree, source |-> last.source]
    /\ UNCHANGED <<server_vars, stored, book_title, nodes, root_nodes, max_depth>>

CodecNext ==
    \/ Import
    \/ \E subtree_root \in CodecIds \cup {None} : Export(subtree_root)

SpecCodec == CodecInit /\ [][CodecNext]_vars

(***************************************************************************)
(* Notions on serializable trees.                                          *)
(***************************************************************************)
(* the nodes of a forest in depth-first pre-order, each with its level     *)
RECURSIVE Preorder(_, _), NestingOfNodes(_)
Preorder(tree_nodes, level) ==
    IF tree_nodes = <<>> THEN <<>>
    ELSE <<[node |-> Head(tree_nodes), level |-> level]>>
         \o Preorder(Head(tree_nodes).children, level + 1)
         \o Preorder(Tail(tree_nodes), level)

(* the number of levels of a forest *)
NestingOfNodes(tree_nodes) ==
    IF tree_nodes = <<>> THEN 0
    ELSE 1 + MaxOf({NestingOfNodes(tree_nodes[i].children) : i \in 1..Len(tree_nodes)})

NestingOf(tree) == NestingOfNodes(tree.nodes)

(* a forest with every identifier blanked and every legacy tag as content  *)
RECURSIVE WithoutIds(_)
WithoutIds(tree_nodes) ==
    [i \in 1..Len(tree_nodes) |->
        [tree_nodes[i] EXCEPT !.id = "",
                              !.node_type = IF @ \in {"checklist", "reference", "runnable"}
                                            THEN "content" ELSE @,
                              !.children = WithoutIds(@)]]

(***************************************************************************)
(* C14 as stated: for every tree x that import accepts, the whole-tree     *)
(* export of the imported book is x exactly: title, maximum depth and, for *)
(* every node in order, identifier text, title, type tag, body,            *)
(* placeholder and children.                                               *)
(***************************************************************************)
C14_ImportExportExact ==
    (last.op = "export" /\ last.subtree_root = None) => last.tree = last.source

(***************************************************************************)
(* C14 amended: for every tree x that import accepts, the whole-tree       *)
(* export of the imported book reproduces x except for the identifier      *)
(* texts, which are those of the nodes the import created, and for the     *)
(* legacy tags checklist, reference and runnable, which come back as       *)
(* content.                                                                *)
(***************************************************************************)
C14_ImportExportUpToIds ==
    (last.op = "export" /\ last.subtree_root = None) =>
        LET out == Preorder(last.tree.nodes, 1)
        IN  /\ last.tree.title = last.source.title
            /\ last.tree.max_depth = last.source.max_depth
            /\ WithoutIds(last.tree.nodes) = WithoutIds(last.source.nodes)
            /\ {out[i].node.id : i \in 1..Len(out)} = {NodeIdText(n) : n \in DOMAIN nodes}
            /\ Len(out) = Cardinality(DOMAIN nodes)

C14_Witness ==
    /\ last.op = "export" /\ last.subtree_root = None
    /\ Len(last.source.nodes) = 2
    /\ last.source.nodes[1].node_type = "checklist"
    /\ last.source.nodes[2].node_type = "section"
    /\ Len(last.source.nodes[2].children) = 1

(***************************************************************************)
(* C15: import of a tree that holds a chain nested 40 levels deep fails    *)
(* with the error of the nesting ceiling (32), whatever maximum depth the  *)
(* tree declares, smaller or larger than 32, and returns no book.          *)
(***************************************************************************)
C15_DeepImportHitsCeiling ==
    (last.op = "import" /\ NestingOf(last.source) = DeepNesting) =>
        /\ last.err = "ImportInvalidType" /\ last.detail = NestingMessage
        /\ nodes = <<>> /\ root_nodes = <<>>

(* the error kind import returns at the nesting ceiling *)
CeilingErrorKind ==
    CHOOSE kind \in { import_tree(x, [i \in 1..DeepNesting |-> i]).err :
                        x \in {t \in ChainTrees : /\ NestingOf(t) = IMPORT_MAX_RECURSION + 1
                                                  /\ t.max_depth > IMPORT_MAX_RECURSION} } : TRUE

(***************************************************************************)
(* C16: the error import returns when the nesting exceeds the ceiling is a *)
(* kind of its own: an import that fails below the ceiling, on the book's  *)
(* depth limit or on an unrecognized type tag, returns another kind.       *)
(***************************************************************************)
C16_CeilingErrorOwnKind ==
    (/\ last.op = "import" /\ last.err # "Ok"
     /\ NestingOf(last.source) <= IMPORT_MAX_RECURSION)
    => last.err # CeilingErrorKind

(***************************************************************************)
(* The type tags import is to recognize, the places in depth-first order   *)
(* of the nodes of a tree that carry another tag, and the agreement of the *)
(* imported book with a tree on the types.                                 *)
(***************************************************************************)
ContentTags == {"content", "checklist", "reference", "runnable"}

BadTagPlaces(pre) ==
    {i \in 1..Len(pre) : pre[i].node.node_type \notin ContentTags \cup {"section"}}

TypesMapped(pre) ==
    LET d == all_nodes_dfs(nodes, root_nodes)
    IN  /\ Len(d) = Len(pre)
        /\ \A i \in 1..Len(pre) :
              /\ pre[i].node.node_type = "section" => nodes[d[i]].node_type = "Section"
              /\ pre[i].node.node_type \in ContentTags => nodes[d[i]].node_type = "Content"

(***************************************************************************)
(* C17 as stated: import maps the tag section to Section and each of       *)
(* content, checklist, reference, runnable to Content; a node with any     *)
(* other tag anywhere in the tree makes the whole import fail with an      *)
(* InvalidType error carrying that tag, and no book is returned.           *)
(***************************************************************************)
C17_BadTagGivesInvalidType ==
    last.op = "import" =>
        LET pre == Preorder(last.source.nodes, 1)
        IN  /\ last.err = "Ok" => TypesMapped(pre)
            /\ BadTagPlaces(pre) # {} =>
                  /\ last.err = "ImportInvalidType"
                  /\ last.detail \in {pre[i].node.node_type : i \in BadTagPlaces(pre)}
                  /\ nodes = <<>> /\ root_nodes = <<>>

(***************************************************************************)
(* C17 amended: import maps the tag section to Section and each of         *)
(* content, checklist, reference, runnable to Content; a node with any     *)
(* other tag anywhere in the tree makes the whole import fail, and no book *)
(* is returned; the error is InvalidType carrying the tag of the first     *)
(* such node in depth-first order, unless a node before it lies deeper     *)
(* than the declared maximum depth or the nesting ceiling, or that node    *)
(* itself lies beyond the ceiling.                                         *)
(***************************************************************************)
C17_FirstBadTagGivesInvalidType ==
    last.op = "import" =>
        LET pre == Preorder(last.source.nodes, 1)
            bad == BadTagPlaces(pre)
            first == CHOOSE b \in bad : \A i \in bad : b <= i
        IN  /\ last.err = "Ok" => TypesMapped(pre)
            /\ bad # {} =>
                  /\ last.err # "Ok"
                  /\ nodes = <<>> /\ root_nodes = <<>>
                  /\ (/\ pre[first].level <= IMPORT_MAX_RECURSION
                      /\ \A i \in 1..(first - 1) :
                            pre[i].level <= Min(max_depth, IMPORT_MAX_RECURSION))
                     => /\ last.err = "ImportInvalidType"
                        /\ last.detail = pre[first].node.node_type

C17_Witness ==
    /\ last.op = "import" /\ last.err = "ImportInvalidType"
    /\ last.detail = "unknown_type"
    /\ Len(last.source.nodes) = 2
    /\ last.source.nodes[1].node_type = "runnable"
    /\ Len(last.source.nodes[2].children) = 1
    /\ last.source.nodes[2].children[1].node_type = "unknown_type"

(* the exported nodes es stand for the book's nodes ids, one for one in order *)
ExportsOf(es, ids) ==
    /\ Len(es) = Len(ids)
    /\ \A j \in 1..Len(ids) : es[j].id = NodeIdText(ids[j])

ExportedNode(e) ==
    \E n \in DOMAIN nodes :
       /\ e.id = NodeIdText(n)
       /\ e.title = nodes[n].title
       /\ e.node_type = (IF nodes[n].node_type = "Section" THEN "section" ELSE "content")
       /\ e.body = nodes[n].body
       /\ e.placeholder = nodes[n].placeholder
       /\ ExportsOf(e.children, nodes[n].children)

ExportShape(ex, r) ==
    LET pre == Preorder(ex.tree.nodes, 1)
    IN  /\ ex.err = "Ok"
        /\ DOMAIN ex.tree = {"title", "max_depth", "nodes"}
        /\ ex.tree.title = IF r = None THEN book_title ELSE nodes[r].title
        /\ ex.tree.max_depth = max_depth
        /\ ExportsOf(ex.tree.nodes, IF r = None THEN root_nodes ELSE nodes[r].children)
        /\ \A i \in 1..Len(pre) : ExportedNode(pre[i].node)

(***************************************************************************)
(* C18: a whole-tree export carries the book's title and the root nodes in *)
(* root-list order; a subtree export for an existing node r carries r's    *)
(* title and r's children in order as its roots, and nothing else of r;    *)
(* both carry the book's maximum depth, and every exported node carries    *)
(* its identifier text, title, type tag section or content, body,          *)
(* placeholder and its children in child-list order.                       *)
(***************************************************************************)
C18_ExportShape ==
    \A r \in DOMAIN nodes \cup {None} :
       ExportShape(build_tree(book_title, max_depth, nodes, root_nodes, r), r)

(***************************************************************************)
(* Positional numbering (src/interface/mcp.rs): build_hierarchical_ids and *)
(* collect_children_ids, as the list of the pairs [num, id] pushed.  i and *)
(* j are the 0-based indices of enumerate().                               *)
(***************************************************************************)
root_number(i) == ToString(i + 1)

(* child_number with a fault: the children are numbered from 0 *)
child_number_from_zero(parent_num, j) == parent_num \o "-" \o ToString(j)

child_number(parent_num, j) == parent_num \o "-" \o ToString(j + 1)

RECURSIVE collect_children_ids(_, _, _), children_entries(_, _, _, _)
collect_children_ids(ns, parent_id, parent_num) ==
    IF parent_id \notin DOMAIN ns THEN <<>>
    ELSE children_entries(ns, ns[parent_id].children, parent_num, 0)

children_entries(ns, ids, parent_num, j) ==
    IF j >= Len(ids) THEN <<>>
    ELSE LET num == child_number(parent_num, j)
         IN  <<[num |-> num, id |-> ids[j + 1]]>>
             \o collect_children_ids(ns, ids[j + 1], num)
             \o children_entries(ns, ids, parent_num, j + 1)

RECURSIVE root_entries(_, _, _)
root_entries(ns, roots, i) ==
    IF i >= Len(roots) THEN <<>>
    ELSE LET num == root_number(i)
         IN  <<[num |-> num, id |-> roots[i + 1]]>>
             \o collect_children_ids(ns, roots[i + 1], num)
             \o root_entries(ns, roots, i + 1)

build_hierarchical_ids(ns, roots) == root_entries(ns, roots, 0)

(***************************************************************************)
(* C19: in every reachable state all_nodes_dfs returns exactly             *)
(* node_count() nodes, each node once, and their identifiers in the order  *)
(* of the positional enumeration build_hierarchical_ids.                   *)
(***************************************************************************)
C19_DfsCoversBook ==
    LET d == all_nodes_dfs(nodes, root_nodes)
        h == build_hierarchical_ids(nodes, root_nodes)
    IN  /\ Len(d) = Cardinality(DOMAIN nodes)
        /\ \A i, j \in 1..Len(d) : d[i] = d[j] => i = j
        /\ d = [k \in 1..Len(h) |-> h[k].id]

(***************************************************************************)
(* Books of up to NumberingNodes nodes, built by adding sections as roots  *)
(* and content below them, in front of or behind the siblings, and by      *)
(* removing the node added last.  Identifiers are handed out in increasing *)
(* order.                                                                  *)
(***************************************************************************)
NumberingNodes == 6
NumberingDepth == 2

NumberingIds == 1..NumberingNodes

NumberingFresh ==
    {n \in NumberingIds \ DOMAIN nodes : \A m \in NumberingIds \ DOMAIN nodes : n <= m}

(* the node added last *)
NumberingNewest == {n \in DOMAIN nodes : \A m \in DOMAIN nodes : m <= n}

NumberingRequest(parent) ==
    [title |-> "A", body |-> NoText, placeholder |-> NoText,
     node_type |-> IF parent = None THEN "Section" ELSE "Content"]

NumberingInit ==
    /\ NoServer
    /\ stored = TRUE
    /\ book_title = BookTitle
    /\ nodes = <<>>
    /\ root_nodes = <<>>
    /\ max_depth = NumberingDepth
    /\ last = [op |-> "new", err |-> "Ok", id |-> None, parent |-> None, position |-> 0,
               req |-> NoReq, err_id |-> None, max |-> max_depth, n_before |-> 0]

NumberingNext ==
    \/ \E parent \in NumberingIds \cup {None}, position \in {0, usize_MAX} :
          AddNode(NumberingFresh, parent, NumberingRequest(parent), position)
    \/ \E id \in NumberingNewest : RemoveNode(id)

SpecNumbering == NumberingInit /\ [][NumberingNext]_vars

(***************************************************************************)
(* C20: the positional enumeration gives the i-th entry of the root list   *)
(* (1-based) the number i and the j-th child (1-based) of a node numbered  *)
(* p the number p-j, and emits the pairs in depth-first pre-order; for two *)
(* roots with two children each it is 1, 1-1, 1-2, 2, 2-1, 2-2 in that     *)
(* order.                                                                  *)
(***************************************************************************)
C20_PositionalNumbers ==
    LET h == build_hierarchical_ids(nodes, root_nodes)
        entries == {h[k] : k \in 1..Len(h)}
    IN  /\ \A i \in 1..Len(root_nodes) :
              [num |-> ToString(i), id |-> root_nodes[i]] \in entries
        /\ \A e \in entries : \A j \in 1..Len(nodes[e.id].children) :
              [num |-> e.num \o "-" \o ToString(j), id |-> nodes[e.id].children[j]] \in entries
        /\ [k \in 1..Len(h) |-> h[k].id] = all_nodes_dfs(nodes, root_nodes)
        /\ (/\ Len(root_nodes) = 2
            /\ \A i \in 1..2 : Len(nodes[root_nodes[i]].children) = 2
            /\ Cardinality(DOMAIN nodes) = 6)
           => [k \in 1..Len(h) |-> h[k].num] = <<"1", "1-1", "1-2", "2", "2-1", "2-2">>

C20_Witness ==
    /\ Len(root_nodes) = 2
    /\ \A i \in 1..2 : Len(nodes[root_nodes[i]].children) = 2
    /\ Cardinality(DOMAIN nodes) = 6
    /\ nodes[root_nodes[1]].node_type = "Section"
    /\ nodes[nodes[root_nodes[2]].children[2]].node_type = "Content"
    /\ root_nodes[1] > root_nodes[2]

(***************************************************************************)
(* Text.  A reference typed by a caller, the text of an identifier and a   *)
(* title to be searched are sequences of characters, each character a      *)
(* string of length one.                                                   *)
(***************************************************************************)
Digits == {"0", "1", "2", "3", "4", "5", "6", "7", "8", "9"}

HexLower == <<"0", "1", "2", "3", "4", "5", "6", "7", "8", "9", "a", "b", "c", "d", "e", "f">>

HexUpper == <<"0", "1", "2", "3", "4", "5", "6", "7", "8", "9", "A", "B", "C", "D", "E", "F">>

(* char::is_ascii_digit *)
is_ascii_digit(c) == c \in Digits

is_ascii_hexdigit(c) == c \in Range(HexLower) \cup Range(HexUpper)

(* char::to_lowercase / to_uppercase on the letters of the model's texts *)
char_to_lowercase(c) ==
    IF \E k \in 11..16 : HexUpper[k] = c
    THEN HexLower[CHOOSE k \in 11..16 : HexUpper[k] = c]
    ELSE c

char_to_uppercase(c) ==
    IF \E k \in 11..16 : HexLower[k] = c
    THEN HexUpper[CHOOSE k \in 11..16 : HexLower[k] = c]
    ELSE c

(* str::to_lowercase *)
to_lowercase(s) == [i \in 1..Len(s) |-> char_to_lowercase(s[i])]

to_uppercase(s) == [i \in 1..Len(s) |-> char_to_uppercase(s[i])]

(* str::starts_with *)
starts_with(s, prefix) ==
    Len(prefix) <= Len(s) /\ SubSeq(s, 1, Len(prefix)) = prefix

(* contains with a fault: the pattern is looked for at the start only *)
contains_at_start(s, pattern) ==
    Len(pattern) <= Len(s) /\ SubSeq(s, 1, Len(pattern)) = pattern

(* str::contains *)
contains(s, pattern) ==
    \E i \in 0..(Len(s) - Len(pattern)) : SubSeq(s, i + 1, i + Len(pattern)) = pattern

(* str::split(sep): the parts between the separators, empty parts kept *)
RECURSIVE split(_, _)
split(s, sep) ==
    LET hits == {i \in 1..Len(s) : s[i] = sep}
    IN  IF hits = {} THEN <<s>>
        ELSE LET i == CHOOSE h \in hits : \A g \in hits : h <= g
             IN  <<SubSeq(s, 1, i - 1)>> \o split(SubSeq(s, i + 1, Len(s)), sep)

(* the string a sequence of characters spells *)
RECURSIVE Text(_)
Text(s) == IF s = <<>> THEN "" ELSE Head(s) \o Text(Tail(s))

Rep(c, n) == [i \in 1..n |-> c]

(***************************************************************************)
(* is_hierarchical_id (src/interface/mcp.rs)                               *)
(***************************************************************************)
(* part_is_number with a fault: an empty part passes *)
part_is_number_or_empty(part) == \A i \in 1..Len(part) : is_ascii_digit(part[i])

part_is_number(part) == part # <<>> /\ \A i \in 1..Len(part) : is_ascii_digit(part[i])

is_hierarchical_id(s) ==
    /\ s # <<>>
    /\ LET parts == split(s, "-")
       IN  \A k \in 1..Len(parts) : part_is_number(parts[k])

(***************************************************************************)
(* NodeId as text (src/domain/model/id.rs).  A NodeId wraps a UUID, 32     *)
(* hexadecimal digits; uuid_digits gives the digits of the identifiers of  *)
(* the model: identifier 1 has decimal digits only, the others share their *)
(* first four digits and differ from the fifth on.  Version and variant    *)
(* are those of a random UUID.                                             *)
(***************************************************************************)
uuid_digits(id) ==
    IF id = 1
    THEN Rep("1", 12) \o <<"4">> \o Rep("1", 3) \o <<"8">> \o Rep("1", 15)
    ELSE <<"a", "1", "b", "2">> \o Rep(HexLower[id + 9], 8) \o <<"4">>
         \o Rep(HexLower[id + 9], 3) \o <<"8">> \o Rep(HexLower[id + 9], 15)

(* the hyphenated form: groups of 8, 4, 4, 4 and 12 digits *)
hyphenated(digits) ==
    SubSeq(digits, 1, 8) \o <<"-">> \o SubSeq(digits, 9, 12) \o <<"-">>
    \o SubSeq(digits, 13, 16) \o <<"-">> \o SubSeq(digits, 17, 20) \o <<"-">>
    \o SubSeq(digits, 21, 32)

(* Display for NodeId *)
to_string(id) == hyphenated(uuid_digits(id))

(* NodeId::short *)
short(id) == SubSeq(to_string(id), 1, 8)

UrnPrefix == <<"u", "r", "n", ":", "u", "u", "i", "d", ":">>

HyphenPlaces == {9, 14, 19, 24}

is_hyphenated(s) ==
    /\ Len(s) = 36
    /\ \A i \in 1..36 : IF i \in HyphenPlaces THEN s[i] = "-" ELSE is_ascii_hexdigit(s[i])

is_simple(s) == Len(s) = 32 /\ \A i \in 1..32 : is_ascii_hexdigit(s[i])

(* the text between braces or after the urn prefix, or the text itself *)
unwrapped(s) ==
    IF Len(s) = 38 /\ s[1] = "{" /\ s[38] = "}" THEN SubSeq(s, 2, 37)
    ELSE IF Len(s) = 45 /\ starts_with(s, UrnPrefix) THEN SubSeq(s, 10, 45)
    ELSE s

(* parse_node_id: the text is deserialized as a UUID, which accepts the    *)
(* hyphenated form, bare, in braces or as a urn, and 32 bare digits, in    *)
(* either case of the letters.  universe: the identifiers of the model.    *)
parse_node_id(s, universe) ==
    LET form == IF is_simple(s) THEN "simple"
                ELSE IF is_hyphenated(unwrapped(s)) THEN "hyphenated"
                ELSE "none"
        digits == to_lowercase(SelectSeq(unwrapped(s), LAMBDA c : c # "-"))
    IN  IF form = "none" THEN [ok |-> FALSE, id |-> None]
        ELSE [ok |-> TRUE, id |-> CHOOSE id \in universe : uuid_digits(id) = digits]

(***************************************************************************)
(* OutlineMcpServer::resolve_id on the selected book.  A result is the     *)
(* identifier found, or the invalid_params error with its message: the     *)
(* kind of the message, the number of matches it states and the candidates *)
(* it lists, each with its title and its number.                           *)
(***************************************************************************)
Resolved(id) ==
    [err |-> "Ok", id |-> id, message |-> "none", count |-> 0, candidates |-> <<>>]

Rejected(message, count, candidates) ==
    [err |-> "invalid_params", id |-> None, message |-> message, count |-> count,
     candidates |-> candidates]

(* find_hierarchical_id: no or one number *)
find_hierarchical_id(ns, roots, target) ==
    LET mapping == build_hierarchical_ids(ns, roots)
        hits == {k \in 1..Len(mapping) : mapping[k].id = target}
    IN  IF hits = {} THEN <<>>
        ELSE <<mapping[CHOOSE k \in hits : \A h \in hits : k <= h].num>>

(* the candidate a title match is listed as *)
title_candidate(ns, roots, id) ==
    LET found == find_hierarchical_id(ns, roots, id)
        hier == IF found = <<>> THEN Text(short(id)) ELSE found[1]
    IN  IF id \in DOMAIN ns THEN [title |-> ns[id].title, hier |-> hier]
        ELSE [title |-> <<>>, hier |-> hier]

(* step 4: case-insensitive title match over the depth-first traversal *)
resolve_by_title(ns, roots, s) ==
    LET query == to_lowercase(s)
        title_matches == SelectSeq(all_nodes_dfs(ns, roots),
                                   LAMBDA id : contains(to_lowercase(ns[id].title), query))
        n == Len(title_matches)
    IN  IF n = 0 THEN Rejected("No node found matching", 0, <<>>)
        ELSE IF n = 1 THEN Resolved(title_matches[1])
        ELSE Rejected("Ambiguous title match", n,
                      [k \in 1..n |-> title_candidate(ns, roots, title_matches[k])])

(* step 3: identifier prefix over all identifiers of the book *)
resolve_by_prefix(ns, roots, s) ==
    LET id_matches == {id \in DOMAIN ns : starts_with(to_string(id), s)}
        n == Cardinality(id_matches)
    IN  IF n = 1 THEN Resolved(CHOOSE id \in id_matches : TRUE)
        ELSE IF n > 1 THEN Rejected("Ambiguous ID prefix", n, <<>>)
        ELSE resolve_by_title(ns, roots, s)

(* step 1: the number is looked up in the enumeration *)
resolve_by_number(ns, roots, s) ==
    LET mapping == build_hierarchical_ids(ns, roots)
        hits == {k \in 1..Len(mapping) : mapping[k].num = Text(s)}
    IN  IF hits # {}
        THEN Resolved(mapping[CHOOSE k \in hits : \A h \in hits : k <= h].id)
        ELSE Rejected("No node at position", 0, <<>>)

(* resolve_id with a fault: a prefix is tried before a full identifier and  *)
(* before a number                                                         *)
resolve_id_prefix_first(ns, roots, s, universe) ==
    IF \E id \in DOMAIN ns : starts_with(to_string(id), s)
    THEN resolve_by_prefix(ns, roots, s)
    ELSE IF is_hierarchical_id(s) THEN resolve_by_number(ns, roots, s)
    ELSE LET parsed == parse_node_id(s, universe)
         IN  IF parsed.ok THEN Resolved(parsed.id)
             ELSE resolve_by_title(ns, roots, s)

resolve_id(ns, roots, s, universe) ==
    IF is_hierarchical_id(s) THEN resolve_by_number(ns, roots, s)
    ELSE LET parsed == parse_node_id(s, universe)
         IN  IF parsed.ok THEN Resolved(parsed.id)
             ELSE resolve_by_prefix(ns, roots, s)

(***************************************************************************)
(* Reference resolution on a book that grows and shrinks.  Nodes are added *)
(* behind their siblings with one of ResolveTitles and the node added last *)
(* is removed; identifiers are handed out in increasing order.  A caller   *)
(* resolves any of References: every text of up to ShortLen characters     *)
(* over ShortAlphabet, the examples of numbers and of free text, every     *)
(* prefix and every accepted form of the identifiers, and parts of titles. *)
(***************************************************************************)
ResolveNodes == 3
ResolveDepth == 3
ShortLen == 4

ResolveIds == 1..ResolveNodes

ResolveTitles == { <<"A", "b">>, <<"a", "B", "c">> }

ShortAlphabet == {"1", "2", "-", "a"}

ShortTexts == UNION { [1..n -> ShortAlphabet] : n \in 0..ShortLen }

(* the texts the tests of is_hierarchical_id accept and reject *)
ValidExamples ==
    { <<"1">>, <<"2", "-", "3">>, <<"1", "-", "2", "-", "1">>,
      <<"1", "0", "-", "2", "0", "-", "3", "0">> }

InvalidExamples ==
    { <<>>, <<"a", "b", "c">>, <<"1", "-">>, <<"-", "1">>, <<"1", "-", "-", "2">>,
      <<"a", "1", "b", "2", "c", "3", "d", "4">> }

ExampleTexts ==
    ValidExamples \cup InvalidExamples \cup { <<"1", "-", "1", "-", "1">>, <<"x">> }

TitleTexts ==
    { <<"a", "b">>, <<"A", "B">>, <<"b">>, <<"c">>, <<"B", "c">>, <<"a", "b", "c", "d">> }

(* the forms of an identifier that parse as a UUID *)
IdentifierForms(id) ==
    { to_string(id), to_uppercase(to_string(id)), uuid_digits(id),
      <<"{">> \o to_string(id) \o <<"}">>, UrnPrefix \o to_string(id) }

IdentifierTexts ==
    UNION { IdentifierForms(id) \cup { SubSeq(to_string(id), 1, n) : n \in 1..36 }
            : id \in ResolveIds }

References == ShortTexts \cup ExampleTexts \cup TitleTexts \cup IdentifierTexts

ResolveFresh ==
    {n \in ResolveIds \ DOMAIN nodes : \A m \in ResolveIds \ DOMAIN nodes : n <= m}

ResolveNewest == {n \in DOMAIN nodes : \A m \in DOMAIN nodes : m <= n}

ResolveRequest(t) ==
    [title |-> t, body |-> NoText, node_type |-> "Section", placeholder |-> NoText]

ResolveInit ==
    /\ NoServer
    /\ stored = TRUE
    /\ book_title = BookTitle
    /\ nodes = <<>>
    /\ root_nodes = <<>>
    /\ max_depth = ResolveDepth
    /\ last = [op |-> "new", err |-> "Ok", id |-> None, parent |-> None, position |-> 0,
               req |-> NoReq, err_id |-> None, max |-> max_depth, n_before |-> 0]

(* resolve_id: the book is read, not changed.  A result depends on the     *)
(* book and the reference only, so one resolution is made between two      *)
(* changes of the book.                                                    *)
Resolve(s) ==
    /\ last.op # "resolve"
    /\ last' = [op |-> "resolve", ref |-> s, positional |-> is_hierarchical_id(s),
                result |-> resolve_id(nodes, root_nodes, s, ResolveIds)]
    /\ UNCHANGED <<server_vars, stored, book_title, nodes, root_nodes, max_depth>>

ResolveNext ==
    \/ \E parent \in ResolveIds \cup {None}, t \in ResolveTitles :
          AddNode(ResolveFresh, parent, ResolveRequest(t), usize_MAX)
    \/ \E id \in ResolveNewest : RemoveNode(id)
    \/ \E s \in References : Resolve(s)

SpecResolve == ResolveInit /\ [][ResolveNext]_vars

(***************************************************************************)
(* Notions on references.                                                  *)
(***************************************************************************)
(* non-empty, and every part between hyphens a non-empty run of digits *)
NumberingSyntax(s) ==
    /\ s # <<>>
    /\ \A i \in 1..Len(s) : s[i] \in Digits \cup {"-"}
    /\ s[1] # "-" /\ s[Len(s)] # "-"
    /\ \A i \in 1..(Len(s) - 1) : ~(s[i] = "-" /\ s[i + 1] = "-")

(* the positional number of a node: the places on the path from its root *)
RECURSIVE NumberOf(_, _, _)
NumberOf(ns, roots, id) ==
    IF ns[id].parent = None THEN ToString(IndexOf(roots, id))
    ELSE NumberOf(ns, roots, ns[id].parent) \o "-"
         \o ToString(IndexOf(ns[ns[id].parent].children, id))

Numbered(s) == {n \in DOMAIN nodes : NumberOf(nodes, root_nodes, n) = Text(s)}

Spelled(s) == {id \in ResolveIds : s \in IdentifierForms(id)}

(* t begins with s *)
BeginsWith(t, s) == Len(s) <= Len(t) /\ \A k \in 1..Len(s) : t[k] = s[k]

(* the same character, or the same letter in the two cases *)
SameLetter(a, b) == a = b \/ \E k \in 11..16 : {a, b} = {HexLower[k], HexUpper[k]}

(* s occurs in t from some place on, the case of the letters ignored *)
OccursIn(s, t) ==
    \E i \in 0..Len(t) :
       /\ i + Len(s) <= Len(t)
       /\ \A k \in 1..Len(s) : SameLetter(t[i + k], s[k])

PrefixMatches(s) == {n \in DOMAIN nodes : BeginsWith(to_string(n), s)}

TitleMatches(s) == {n \in DOMAIN nodes : OccursIn(s, nodes[n].title)}

(* the outcome of matching: the one match, or the error for none or many *)
MatchOutcome(r, matches, none, many) ==
    IF matches = {} THEN r.err # "Ok" /\ r.message = none
    ELSE IF Cardinality(matches) = 1 THEN r.err = "Ok" /\ r.id \in matches
    ELSE r.err # "Ok" /\ r.message = many

(***************************************************************************)
(* C21: reference resolution applies the four forms in strict order: a     *)
(* text with the syntax of a positional number is resolved by the lookup   *)
(* of that number only and fails when no node has it; otherwise a text     *)
(* that parses as an identifier is returned directly; otherwise the nodes  *)
(* whose identifier starts with the text decide; otherwise the nodes whose *)
(* title contains the text, whatever the case of the letters.              *)
(***************************************************************************)
C21_ResolutionOrder ==
    last.op = "resolve" =>
        LET s == last.ref
            r == last.result
        IN  IF NumberingSyntax(s)
            THEN MatchOutcome(r, Numbered(s), "No node at position", "unreachable")
            ELSE IF Spelled(s) # {}
            THEN r.err = "Ok" /\ r.id \in Spelled(s)
            ELSE IF PrefixMatches(s) # {}
            THEN MatchOutcome(r, PrefixMatches(s), "unreachable", "Ambiguous ID prefix")
            ELSE MatchOutcome(r, TitleMatches(s), "No node found matching",
                              "Ambiguous title match")

C21_Witness ==
    /\ last.op = "resolve"
    /\ last.ref = <<"1", "1">>
    /\ PrefixMatches(last.ref) # {}
    /\ last.result.message = "No node at position"
    /\ \E n \in DOMAIN nodes : nodes[n].parent # None

(* a reference of neither of the first two forms that starts no identifier *)
NoNumberIdOrPrefix(s) ==
    /\ ~NumberingSyntax(s)
    /\ Spelled(s) = {}
    /\ PrefixMatches(s) = {}

NotFound(r) == r.err # "Ok" /\ r.message = "No node found matching"

(***************************************************************************)
(* C22 as stated: resolving a reference that is neither a positional       *)
(* number nor a well-formed full identifier, and that is a prefix of no    *)
(* node identifier of the book, fails with NotFound.                       *)
(***************************************************************************)
C22_NoPrefixGivesNotFound ==
    (last.op = "resolve" /\ NoNumberIdOrPrefix(last.ref)) => NotFound(last.result)

(***************************************************************************)
(* C22 amended: resolving a reference that is neither a positional number  *)
(* nor a well-formed full identifier, and that is a prefix of no node      *)
(* identifier of the book, fails with NotFound exactly when the reference  *)
(* is also contained in no node title, the case of the letters ignored.    *)
(***************************************************************************)
C22_NoPrefixNoTitleGivesNotFound ==
    (last.op = "resolve" /\ NoNumberIdOrPrefix(last.ref)) =>
        (NotFound(last.result) <=> TitleMatches(last.ref) = {})

C22_Witness ==
    /\ last.op = "resolve"
    /\ last.ref = <<"B", "c">>
    /\ NoNumberIdOrPrefix(last.ref)
    /\ NotFound(last.result)
    /\ Cardinality(DOMAIN nodes) = 3

(***************************************************************************)
(* C23: a text is recognized as a positional number if and only if it is   *)
(* non-empty and every part of it between hyphens is a non-empty run of    *)
(* decimal digits: 1, 2-3, 1-2-1 and 10-20-30 are recognized; the empty    *)
(* text, abc, 1-, -1, 1--2 and a1b2c3d4 are not.                           *)
(***************************************************************************)
C23_NumberingRecognized ==
    last.op = "resolve" =>
        /\ last.positional <=> NumberingSyntax(last.ref)
        /\ last.ref \in ValidExamples => last.positional
        /\ last.ref \in InvalidExamples => ~last.positional

C23_Witness ==
    /\ last.op = "resolve"
    /\ last.ref = <<"1", "0", "-", "2", "0", "-", "3", "0">>
    /\ last.positional
    /\ last.result.message = "No node at position"
    /\ nodes # <<>>

(* the text of an identifier of the model, or a non-empty prefix of it *)
IdentifierOrPrefix(s) ==
    s # <<>> /\ \E id \in ResolveIds : BeginsWith(to_string(id), s)

(***************************************************************************)
(* C24: no text of a node identifier (groups of 8, 4, 4, 4 and 12          *)
(* hexadecimal digits between hyphens) and no prefix of one is recognized  *)
(* as a positional number, so a reference that is the identifier of an     *)
(* existing node, or a prefix of it, is never answered by the lookup of a  *)
(* number.                                                                 *)
(***************************************************************************)
C24_IdentifierNeverNumber ==
    (last.op = "resolve" /\ IdentifierOrPrefix(last.ref)) =>
        /\ ~last.positional
        /\ PrefixMatches(last.ref) # {} => last.result.message # "No node at position"

(* the error names every node of matches, each with its title and number *)
ListsCandidates(r, matches) ==
    /\ Len(r.candidates) = Cardinality(matches)
    /\ Range(r.candidates) =
          { [title |-> nodes[n].title, hier |-> NumberOf(nodes, root_nodes, n)] : n \in matches }

(***************************************************************************)
(* C25: whenever resolution matches more than one node, by identifier      *)
(* prefix or by title, it fails with an Ambiguous error that identifies    *)
(* every matching node; for title matches each is given with its           *)
(* positional number and its title.                                        *)
(***************************************************************************)
C25_AmbiguousListsCandidates ==
    (last.op = "resolve" /\ ~NumberingSyntax(last.ref) /\ Spelled(last.ref) = {}) =>
        LET r == last.result
            by_prefix == PrefixMatches(last.ref)
            by_title == TitleMatches(last.ref)
        IN  /\ Cardinality(by_prefix) > 1 =>
                  /\ r.err # "Ok" /\ r.message = "Ambiguous ID prefix"
                  /\ Len(r.candidates) = Cardinality(by_prefix)
            /\ (by_prefix = {} /\ Cardinality(by_title) > 1) =>
                  /\ r.err # "Ok" /\ r.message = "Ambiguous title match"
                  /\ ListsCandidates(r, by_title)

(***************************************************************************)
(* The traversals as calls that return or not: subtree_nodes and           *)
(* all_nodes_dfs (book.rs) and build_hierarchical_ids (mcp.rs) recurse     *)
(* over child lists without a visited set.                                 *)
(***************************************************************************)
subtree_nodes(ns, root) ==
    IF RecursionDiverges(ns, root, {}) THEN [err |-> "Diverge", ids |-> <<>>]
    ELSE [err |-> "Ok", ids |-> collect_subtree_dfs(ns, root)]

all_nodes_dfs_call(ns, roots) ==
    IF \E r \in Range(roots) : RecursionDiverges(ns, r, {})
    THEN [err |-> "Diverge", ids |-> <<>>]
    ELSE [err |-> "Ok", ids |-> all_nodes_dfs(ns, roots)]

build_hierarchical_ids_call(ns, roots) ==
    IF \E r \in Range(roots) : RecursionDiverges(ns, r, {})
    THEN [err |-> "Diverge", mapping |-> <<>>]
    ELSE [err |-> "Ok", mapping |-> build_hierarchical_ids(ns, roots)]

(***************************************************************************)
(* C26: every operation of the book (add, move, remove, depth_of, the      *)
(* whole-tree and the subtree traversal, the positional enumeration)       *)
(* returns on every book it can be given, also on one whose parent or      *)
(* child references hold a cycle.                                          *)
(***************************************************************************)
C26_OperationsTerminate ==
    /\ last.err # "Diverge"
    /\ \A id \in DOMAIN nodes :
          /\ depth_of(nodes, id) \in 1..U8Max
          /\ subtree_nodes(nodes, id).err = "Ok"
    /\ all_nodes_dfs_call(nodes, root_nodes).err = "Ok"
    /\ build_hierarchical_ids_call(nodes, root_nodes).err = "Ok"

(***************************************************************************)
(* C27: depth_of(id) returns for every state of the book, also when the    *)
(* parent references form a cycle, with a value between 1 and 255; on a    *)
(* well-formed tree the value is exactly the number of nodes on the path   *)
(* from id up to its root.                                                 *)
(***************************************************************************)
C27_DepthOfExact ==
    /\ \A id \in DOMAIN nodes : depth_of(nodes, id) \in 1..U8Max
    /\ WellFormed(nodes, root_nodes) =>
          \A id \in DOMAIN nodes : depth_of(nodes, id) = TreeDepth(nodes, id)

(***************************************************************************)
(* BookService (src/application/service.rs) over a BookRepository.  Every  *)
(* mutation loads the stored book, applies the operation of the book to    *)
(* the copy loaded and saves the copy when the operation succeeded.  The   *)
(* repository may fail to load or to save (io); a save that fails leaves   *)
(* the stored book as it was.                                              *)
(***************************************************************************)
StoreOutcomes == {"ok", "load_fails", "save_fails"}

(* load_book with a fault: a missing book is taken for an empty one *)
load_book_or_empty(exists, io) ==
    IF io = "load_fails" THEN "Storage" ELSE "Ok"

load_book(exists, io) ==
    IF io = "load_fails" THEN "Storage"
    ELSE IF ~exists THEN "BookNotFound"
    ELSE "Ok"

persist(io) == IF io = "save_fails" THEN "Storage" ELSE "Ok"

(* TemplateBook::update_node as a function of the book *)
update_node(ns, roots, id, req) ==
    IF id \notin DOMAIN ns THEN Book("NodeNotFound", id, ns, roots)
    ELSE Book("Ok", None, [ns EXCEPT ![id] = update_node_apply(@, req)], roots)

(* One mutation of the service.  outs: the outcomes of the book's          *)
(* operation on the book loaded.  A call that panics or never returns      *)
(* saves nothing.                                                          *)
ServiceCall(op, id, parent, position, req, outs, io) ==
    LET loaded == load_book(stored, io)
    IN  IF loaded # "Ok"
        THEN /\ UNCHANGED <<server_vars, stored, book_title, nodes, root_nodes, max_depth>>
             /\ last' = Result(op, loaded, IF op = "add" THEN None ELSE id, parent,
                               position, req, None)
        ELSE \E b \in outs :
               IF b.err # "Ok"
               THEN /\ UNCHANGED <<server_vars, stored, book_title, nodes, root_nodes, max_depth>>
                    /\ last' = Result(op, b.err, IF op = "add" THEN None ELSE id, parent,
                                      position, req, b.err_id)
               ELSE IF persist(io) # "Ok"
               THEN /\ UNCHANGED <<server_vars, stored, book_title, nodes, root_nodes, max_depth>>
                    /\ last' = Result(op, persist(io), IF op = "add" THEN None ELSE id,
                                      parent, position, req, None)
               ELSE /\ nodes' = b.nodes
                    /\ root_nodes' = b.root_nodes
                    /\ stored' = TRUE
                    /\ UNCHANGED <<server_vars, book_title, max_depth>>
                    /\ last' = Result(op, "Ok", id, parent, position, req, None)

(* BookService::add_node *)
ServiceAddNode(fresh, parent, req, position, io) ==
    \E node_id \in fresh :
       ServiceCall("add", node_id, parent, position, req,
                   add_node(nodes, root_nodes, max_depth, node_id, parent, req, position), io)

(* BookService::update_node *)
ServiceUpdateNode(id, req, io) ==
    ServiceCall("update", id, None, 0, req, {update_node(nodes, root_nodes, id, req)}, io)

(* BookService::move_node *)
ServiceMoveNode(id, new_parent, position, io) ==
    ServiceCall("move", id, new_parent, position, NoReq,
                {move_node(nodes, root_nodes, id, new_parent, position)}, io)

(* BookService::remove_node *)
ServiceRemoveNode(id, io) ==
    ServiceCall("remove", id, None, 0, NoReq, {remove_node(nodes, root_nodes, id)}, io)

(* BookService::create_book: a new book is saved over the stored one *)
CreateBook(t, max, io) ==
    IF persist(io) # "Ok"
    THEN /\ UNCHANGED <<server_vars, stored, book_title, nodes, root_nodes, max_depth>>
         /\ last' = [Result("create", persist(io), None, None, 0, NoReq, None)
                        EXCEPT !.max = max]
    ELSE /\ stored' = TRUE
         /\ UNCHANGED server_vars
         /\ book_title' = t
         /\ max_depth' = max
         /\ nodes' = <<>>
         /\ root_nodes' = <<>>
         /\ last' = [Result("create", "Ok", None, None, 0, NoReq, None) EXCEPT !.max = max]

(* no book is stored at first *)
ServiceInit ==
    /\ NoServer
    /\ stored = FALSE
    /\ book_title = BookTitle
    /\ nodes = <<>>
    /\ root_nodes = <<>>
    /\ max_depth = 1
    /\ last = [op |-> "new", err |-> "Ok", id |-> None, parent |-> None, position |-> 0,
               req |-> NoReq, err_id |-> None, max |-> max_depth, n_before |-> 0]

ServiceNext ==
    \/ \E max \in 1..MaxDepthLimit, io \in StoreOutcomes \ {"load_fails"} :
          CreateBook(BookTitle, max, io)
    \/ \E parent \in NodeIds \cup {None}, req \in AddRequests, position \in Positions,
          io \in StoreOutcomes :
          ServiceAddNode(EditFresh, parent, req, position, io)
    \/ \E id \in UpdateIds, req \in UpdateRequests, io \in StoreOutcomes :
          ServiceUpdateNode(id, req, io)
    \/ \E id \in NodeIds, new_parent \in NodeIds \cup {None}, position \in Positions,
          io \in StoreOutcomes :
          ServiceMoveNode(id, new_parent, position, io)
    \/ \E id \in NodeIds, io \in StoreOutcomes : ServiceRemoveNode(id, io)

SpecService == ServiceInit /\ [][ServiceNext]_vars

ServiceOps == {"add", "update", "move", "remove"}

(* the outcomes of the book's operation of call r on the stored book *)
Applied(r) ==
    IF r.op = "add"
    THEN UNION { add_node(nodes, root_nodes, max_depth, n, r.parent, r.req, r.position)
                 : n \in (IF r.err = "Ok" THEN {r.id} ELSE NodeIds \ DOMAIN nodes) }
    ELSE IF r.op = "update" THEN {update_node(nodes, root_nodes, r.id, r.req)}
    ELSE IF r.op = "move" THEN {move_node(nodes, root_nodes, r.id, r.parent, r.position)}
    ELSE {remove_node(nodes, root_nodes, r.id)}

(***************************************************************************)
(* C28: each mutation of the service (add_node, update_node, move_node,    *)
(* remove_node) loads the stored book once, applies the operation and      *)
(* saves only when it succeeded: with no book stored it fails with         *)
(* BookNotFound; on BookNotFound or an error of the book nothing is saved, *)
(* the stored book is unchanged and the error is returned; on success the  *)
(* stored book is the loaded one with the operation applied.               *)
(***************************************************************************)
C28_ServiceLoadApplySave ==
    [][last'.op \in ServiceOps =>
         /\ (~stored /\ last'.err # "Storage") => last'.err = "BookNotFound"
         /\ last'.err = "BookNotFound" => ~stored
         /\ last'.err \in {"BookNotFound"} \cup Errors =>
               UNCHANGED <<stored, book_title, nodes, root_nodes, max_depth>>
         /\ last'.err \in Errors =>
               \E b \in Applied(last') : b.err = last'.err /\ b.err_id = last'.err_id
         /\ last'.err = "Ok" =>
               /\ stored /\ stored'
               /\ UNCHANGED <<book_title, max_depth>>
               /\ \E b \in Applied(last') :
                     b.err = "Ok" /\ nodes' = b.nodes /\ root_nodes' = b.root_nodes]_vars

C28_Witness ==
    /\ stored
    /\ last.op = "move" /\ last.err = "CyclicMove"
    /\ Cardinality(DOMAIN nodes) = 3

(***************************************************************************)
(* The aggregate under add, move and the removal of the node just added:   *)
(* remove is called with the identifier the add before it returned.        *)
(***************************************************************************)
AddRemoveInit == Init

AddRemoveNext ==
    \/ \E parent \in NodeIds \cup {None}, req \in AddRequests, position \in Positions :
          AddNode(EditFresh, parent, req, position)
    \/ \E id \in NodeIds, new_parent \in NodeIds \cup {None}, position \in Positions :
          MoveNode(id, new_parent, position)
    \/ /\ last.op = "add" /\ last.err = "Ok"
       /\ RemoveNode(last.id)

SpecAddRemove == AddRemoveInit /\ [][AddRemoveNext]_vars

(***************************************************************************)
(* C29: for every book and every valid insertion (under any existing       *)
(* parent within the depth limit or as a root, at any position), a         *)
(* successful add followed by remove of the identifier it returned         *)
(* restores node_count() to its value before the add.                      *)
(***************************************************************************)
C29_AddRemoveRestoresCount ==
    [][(/\ last.op = "add" /\ last.err = "Ok"
        /\ last'.op = "remove" /\ last'.id = last.id)
       => /\ last'.err = "Ok"
          /\ Cardinality(DOMAIN nodes) = last.n_before + 1
          /\ Cardinality(DOMAIN nodes') = last.n_before]_vars

C29_Witness ==
    /\ last.op = "remove" /\ last.err = "Ok"
    /\ Cardinality(DOMAIN nodes) = 2
    /\ last.n_before = 3
    /\ \E n \in DOMAIN nodes : nodes[n].parent # None /\ nodes[n].parent # n

(* what a move of id under new_parent leaves alone *)
MoveFrame(id, new_parent) ==
    LET old_parent == nodes[id].parent
    IN  /\ DOMAIN nodes' = DOMAIN nodes
        /\ Cardinality(DOMAIN nodes') = Cardinality(DOMAIN nodes)
        /\ \A n \in DOMAIN nodes :
              /\ nodes'[n].title = nodes[n].title
              /\ nodes'[n].body = nodes[n].body
              /\ nodes'[n].placeholder = nodes[n].placeholder
              /\ nodes'[n].node_type = nodes[n].node_type
              /\ n # id => nodes'[n].parent = nodes[n].parent
              /\ n \notin {old_parent, new_parent} => nodes'[n].children = nodes[n].children
              /\ VecRetainNot(nodes'[n].children, id) = VecRetainNot(nodes[n].children, id)
        /\ None \notin {old_parent, new_parent} => root_nodes' = root_nodes
        /\ VecRetainNot(root_nodes', id) = VecRetainNot(root_nodes, id)
        /\ nodes'[id].children = nodes[id].children
        /\ \A d \in Descendants(nodes, id) \ {id} : nodes'[d] = nodes[d]

(***************************************************************************)
(* C30: a successful move(id, new_parent, position) keeps the node set and *)
(* the node count, changes no title, body, placeholder or type, changes    *)
(* the parent reference of id only and the child lists of the old and the  *)
(* new parent (or the root list) only, keeps the relative order of all     *)
(* other siblings, and leaves the subtree of id as it was.                 *)
(***************************************************************************)
C30_MoveFrame ==
    [][(last'.op = "move" /\ last'.err = "Ok") => MoveFrame(last'.id, last'.parent)]_vars

(***************************************************************************)
(* The aggregate under add, move, and a move of the node just moved back   *)
(* to the parent and the index it came from.  A move records where the     *)
(* node was (from, index) and the book before the call (was).              *)
(***************************************************************************)
(* the index of id in the child list of its parent, or in the root list *)
index_of(ns, roots, id) ==
    LET siblings == IF ns[id].parent = None THEN roots
                    ELSE IF ns[id].parent \in DOMAIN ns THEN ns[ns[id].parent].children
                    ELSE <<>>
        places == {k \in 1..Len(siblings) : siblings[k] = id}
    IN  IF places = {} THEN 0 ELSE (CHOOSE k \in places : \A m \in places : k <= m) - 1

MoveThere(id, new_parent, position) ==
    LET b == move_node(nodes, root_nodes, id, new_parent, position)
    IN  /\ nodes' = b.nodes
        /\ root_nodes' = b.root_nodes
        /\ UNCHANGED <<server_vars, stored, book_title, max_depth>>
        /\ last' = [op |-> "move", err |-> b.err, id |-> id, parent |-> new_parent,
                    from |-> IF id \in DOMAIN nodes THEN nodes[id].parent ELSE None,
                    index |-> IF id \in DOMAIN nodes THEN index_of(nodes, root_nodes, id)
                              ELSE 0,
                    was |-> [nodes |-> nodes, root_nodes |-> root_nodes]]

MoveBack ==
    /\ last.op = "move" /\ last.err = "Ok"
    /\ LET b == move_node(nodes, root_nodes, last.id, last.from, last.index)
       IN  /\ nodes' = b.nodes
           /\ root_nodes' = b.root_nodes
           /\ UNCHANGED <<server_vars, stored, book_title, max_depth>>
           /\ last' = [op |-> "move_back", err |-> b.err, id |-> last.id,
                       parent |-> last.from, moved_to |-> last.parent, was |-> last.was]

MoveBackInit == Init

MoveBackNext ==
    \/ \E parent \in NodeIds \cup {None}, req \in AddRequests, position \in Positions :
          AddNode(NodeIds \ DOMAIN nodes, parent, req, position)
    \/ \E id \in NodeIds, new_parent \in NodeIds \cup {None}, position \in Positions :
          MoveThere(id, new_parent, position)
    \/ MoveBack

SpecMoveBack == MoveBackInit /\ [][MoveBackNext]_vars

(***************************************************************************)
(* C31: in a well-formed aggregate, if move(id, p, pos) succeeds for a     *)
(* node id that was at index i under parent q (or in the root list), then  *)
(* the following move(id, q, i) also succeeds and restores the aggregate   *)
(* exactly to its state before the first move.                             *)
(***************************************************************************)
C31_MoveBackRestores ==
    (last.op = "move_back" /\ WellFormed(last.was.nodes, last.was.root_nodes))
    => /\ last.err = "Ok"
       /\ nodes = last.was.nodes
       /\ root_nodes = last.was.root_nodes

(* the first of move's error conditions that holds, in the order stated *)
MoveErrorInOrder(id, new_parent) ==
    IF id \notin DOMAIN nodes THEN [err |-> "NodeNotFound", err_id |-> id]
    ELSE IF new_parent # None /\ new_parent \notin DOMAIN nodes
    THEN [err |-> "NodeNotFound", err_id |-> new_parent]
    ELSE IF new_parent \in {id} \cup Descendants(nodes, id)
    THEN [err |-> "CyclicMove", err_id |-> id]
    ELSE IF MoveWouldExceed(id, new_parent)
    THEN [err |-> "MaxDepthExceeded", err_id |-> id]
    ELSE [err |-> "Ok", err_id |-> None]

(***************************************************************************)
(* C32: move reports its errors in a fixed order: NotFound for a missing   *)
(* id, else NotFound for a missing new_parent, else CyclicMove (new_parent *)
(* is id itself or a descendant of id), else DepthExceeded; a move of a    *)
(* node under one of its own descendants reports CyclicMove even when the  *)
(* move would also exceed the maximum depth.                               *)
(***************************************************************************)
C32_MoveErrorOrder ==
    [][(last'.op = "move" /\ WellFormed(nodes, root_nodes))
       => /\ last'.err = MoveErrorInOrder(last'.id, last'.parent).err
          /\ last'.err_id = MoveErrorInOrder(last'.id, last'.parent).err_id]_vars

(***************************************************************************)
(* C33: import accepts a tree whose deepest chain has exactly 32 nested    *)
(* levels when the declared maximum depth is at least 32, and rejects with *)
(* the recursion-limit error every tree that has a chain of 33 or more     *)
(* levels, having checked the level before inserting the node at that      *)
(* level: the nodes inserted are those before the first node of level 33.  *)
(***************************************************************************)
C33_CeilingBetween32And33 ==
    last.op = "import" =>
        LET pre == Preorder(last.source.nodes, 1)
            beyond == {i \in 1..Len(pre) : pre[i].level > IMPORT_MAX_RECURSION}
        IN  /\ (/\ NestingOf(last.source) = IMPORT_MAX_RECURSION
                /\ last.source.max_depth >= IMPORT_MAX_RECURSION
                /\ BadTagPlaces(pre) = {})
               => /\ last.err = "Ok"
                  /\ Cardinality(DOMAIN nodes) = Len(pre)
            /\ NestingOf(last.source) > IMPORT_MAX_RECURSION
               => /\ last.err = "ImportInvalidType" /\ last.detail = NestingMessage
                  /\ nodes = <<>> /\ root_nodes = <<>>
                  /\ last.inserted = (CHOOSE b \in beyond : \A i \in beyond : b <= i) - 1

(***************************************************************************)
(* C34: with maximum depth 255, add under a parent whose depth is 255      *)
(* fails with MaxDepthExceeded and inserts nothing: the child depth        *)
(* (parent depth + 1) is never wrapped or truncated in 8-bit arithmetic to *)
(* a value that passes the depth check.                                    *)
(***************************************************************************)
C34_AddBelow255Rejected ==
    [][(/\ last'.op = "add"
        /\ max_depth = U8Max
        /\ last'.parent \in DOMAIN nodes
        /\ TreeDepth(nodes, last'.parent) = U8Max)
       => /\ last'.err = "MaxDepthExceeded"
          /\ nodes' = nodes /\ root_nodes' = root_nodes]_vars

(***************************************************************************)
(* OutlineMcpServer (src/interface/mcp.rs): the shelf.  A slug, a book     *)
(* reference and a file name are sequences of characters.  shelf_dir maps  *)
(* the name of each file of the shelf directory to its content, the book   *)
(* serialized in it; selected is Option<String>, <<>> for None and         *)
(* <<slug>> for Some(slug).                                                *)
(***************************************************************************)
AsciiUpper ==
    <<"A", "B", "C", "D", "E", "F", "G", "H", "I", "J", "K", "L", "M",
      "N", "O", "P", "Q", "R", "S", "T", "U", "V", "W", "X", "Y", "Z">>

AsciiLower ==
    <<"a", "b", "c", "d", "e", "f", "g", "h", "i", "j", "k", "l", "m",
      "n", "o", "p", "q", "r", "s", "t", "u", "v", "w", "x", "y", "z">>

(* the characters of the model's texts in the order of their byte values *)
AsciiOrder ==
    <<" ", "(", ")", "+", "-", ".", "/">> \o SubSeq(HexLower, 1, 10)
    \o AsciiUpper \o <<"_">> \o AsciiLower

byte_of(c) == CHOOSE k \in 1..Len(AsciiOrder) : AsciiOrder[k] = c

(* char::is_ascii_alphanumeric *)
is_ascii_alphanumeric(c) == c \in Digits \cup Range(AsciiUpper) \cup Range(AsciiLower)

(* validate_slug with a fault: any character is accepted *)
validate_slug_any_char(slug) ==
    IF slug = <<>> THEN "slug must not be empty" ELSE "Ok"

(* validate_slug: "Ok" or the message of the invalid_params error *)
validate_slug(slug) ==
    IF slug = <<>> THEN "slug must not be empty"
    ELSE IF ~ \A i \in 1..Len(slug) :
                 is_ascii_alphanumeric(slug[i]) \/ slug[i] = "-" \/ slug[i] = "_"
    THEN "slug must contain only alphanumeric characters, hyphens, and underscores"
    ELSE "Ok"

(* the value of a run of decimal digits *)
RECURSIVE digits_value(_)
digits_value(s) ==
    IF s = <<>> THEN 0
    ELSE 10 * digits_value(SubSeq(s, 1, Len(s) - 1))
         + (CHOOSE d \in 0..9 : HexLower[d + 1] = s[Len(s)])

(* str::parse::<usize>: an optional '+', then one or more decimal digits   *)
(* whose value fits a usize                                                *)
parse_usize(s) ==
    LET digits == IF s # <<>> /\ s[1] = "+" THEN Tail(s) ELSE s
    IN  IF digits = <<>> \/ \E i \in 1..Len(digits) : ~is_ascii_digit(digits[i])
        THEN [ok |-> FALSE, value |-> 0]
        ELSE IF Len(digits) > 9 THEN [ok |-> FALSE, value |-> 0]
        ELSE [ok |-> TRUE, value |-> digits_value(digits)]

JsonExtension == <<"j", "s", "o", "n">>

(* book_path: the name of the file of a slug in the shelf directory *)
book_path(slug) == slug \o <<".">> \o JsonExtension

(* the place of the dot that starts the extension of a file name, 0 when   *)
(* the name has none (a dot in front starts no extension)                  *)
extension_dot(name) ==
    LET dots == {i \in 2..Len(name) : name[i] = "."}
    IN  IF dots = {} THEN 0 ELSE CHOOSE i \in dots : \A j \in dots : j <= i

(* Path::extension and Path::file_stem, <<>> for no extension *)
extension(name) ==
    IF extension_dot(name) = 0 THEN <<>>
    ELSE SubSeq(name, extension_dot(name) + 1, Len(name))

file_stem(name) ==
    IF extension_dot(name) = 0 THEN name ELSE SubSeq(name, 1, extension_dot(name) - 1)

(* the order of str: byte by byte, a proper prefix first *)
RECURSIVE str_lt(_, _)
str_lt(a, b) ==
    IF b = <<>> THEN FALSE
    ELSE IF a = <<>> THEN TRUE
    ELSE IF a[1] # b[1] THEN byte_of(a[1]) < byte_of(b[1])
    ELSE str_lt(Tail(a), Tail(b))

(* Vec::sort of a set of strings *)
RECURSIVE sorted(_)
sorted(S) ==
    IF S = {} THEN <<>>
    ELSE LET least == CHOOSE x \in S : \A y \in S \ {x} : str_lt(x, y)
         IN  <<least>> \o sorted(S \ {least})

(* list_book_slugs: the stems of the .json files of the shelf, sorted *)
list_book_slugs(dir) ==
    sorted({file_stem(name) : name \in {n \in DOMAIN dir : extension(n) = JsonExtension}})

(* resolve_book_ref with a fault: a reference is always taken for a slug *)
resolve_book_ref_as_slug(dir, book_ref) == [err |-> "Ok", slug |-> book_ref]

(* resolve_book_ref: a reference that parses as a number is the place of   *)
(* a slug in the sorted list, any other reference is the slug itself       *)
resolve_book_ref(dir, book_ref) ==
    LET num == parse_usize(book_ref)
        slugs == list_book_slugs(dir)
    IN  IF num.ok
        THEN IF num.value = 0 \/ num.value > Len(slugs)
             THEN [err |-> "invalid_params", slug |-> <<>>]
             ELSE [err |-> "Ok", slug |-> slugs[num.value]]
        ELSE [err |-> "Ok", slug |-> book_ref]

(***************************************************************************)
(* The books of the shelf.  The content of a book file is the book it      *)
(* serializes; BookService over JsonBookRepository::new(book_path(slug))   *)
(* loads it, applies one operation of the book and saves the result.       *)
(***************************************************************************)
StoredBook(t, max, ns, roots) ==
    [title |-> t, max_depth |-> max, nodes |-> ns, root_nodes |-> roots]

(* validate_move and move_node on a stored book, with its own max_depth *)
book_validate_move_depth(b, id, new_parent) ==
    LET subtree_max == subtree_max_depth(b.nodes, id)
        current_depth == depth_of(b.nodes, id)
        new_base_depth == IF new_parent # None
                          THEN saturating_add(depth_of(b.nodes, new_parent), 1)
                          ELSE 1
        depth_delta == saturating_sub(subtree_max, current_depth)
    IN  IF saturating_add(new_base_depth, depth_delta) > b.max_depth
        THEN Verdict("MaxDepthExceeded", id)
        ELSE Verdict("Ok", None)

book_validate_move(b, id, new_parent) ==
    IF id \notin DOMAIN b.nodes THEN Verdict("NodeNotFound", id)
    ELSE IF new_parent # None /\ new_parent \notin DOMAIN b.nodes
    THEN Verdict("NodeNotFound", new_parent)
    ELSE LET cyc == validate_move_cycle(b.nodes, id, new_parent)
         IN  IF cyc = "diverge" THEN Verdict("Diverge", None)
             ELSE IF cyc = "true" THEN Verdict("CyclicMove", id)
             ELSE IF RecursionDiverges(b.nodes, id, {}) THEN Verdict("Diverge", None)
             ELSE book_validate_move_depth(b, id, new_parent)

book_move_node(b, id, new_parent, position) ==
    LET v == book_validate_move(b, id, new_parent)
    IN  IF v.err # "Ok" THEN Book(v.err, v.err_id, b.nodes, b.root_nodes)
        ELSE LET d == detach_from_parent(b.nodes, b.root_nodes, id)
             IN  IF d.err # "Ok" THEN d
                 ELSE attach_to_parent(d.nodes, d.root_nodes, id, new_parent, position)

(* JsonBookRepository::load of the file of a slug; book is the book loaded *)
read_tree(dir, slug, io) ==
    LET path == book_path(slug)
        loaded == load_book(path \in DOMAIN dir, io)
    IN  [err |-> loaded,
         book |-> IF loaded = "Ok" THEN dir[path] ELSE StoredBook("", 0, <<>>, <<>>)]

(* the outcomes of the operation call on book b *)
book_outcomes(b, call) ==
    IF call.op = "add"
    THEN add_node(b.nodes, b.root_nodes, b.max_depth, call.id, call.parent, call.req,
                  call.position)
    ELSE IF call.op = "update" THEN {update_node(b.nodes, b.root_nodes, call.id, call.req)}
    ELSE IF call.op = "move"
    THEN {book_move_node(b, call.id, call.parent, call.position)}
    ELSE {remove_node(b.nodes, b.root_nodes, call.id)}

(* BookService::add_node / update_node / move_node / remove_node on the    *)
(* file of a slug: the error and the shelf directory after each outcome    *)
service_mutation(dir, slug, io, call) ==
    LET t == read_tree(dir, slug, io)
    IN  IF t.err # "Ok" THEN {[err |-> t.err, dir |-> dir]}
        ELSE { IF b.err # "Ok" THEN [err |-> b.err, dir |-> dir]
               ELSE IF persist(io) # "Ok" THEN [err |-> persist(io), dir |-> dir]
               ELSE [err |-> "Ok",
                     dir |-> [dir EXCEPT ![book_path(slug)] =
                                StoredBook(t.book.title, t.book.max_depth, b.nodes,
                                           b.root_nodes)]]
               : b \in book_outcomes(t.book, call) }

(* save_book with a fault: a file that exists is left as it is *)
save_book_keeps_existing(dir, slug, io, b) ==
    IF persist(io) # "Ok" THEN [err |-> persist(io), dir |-> dir]
    ELSE [err |-> "Ok",
          dir |-> [n \in DOMAIN dir \cup {book_path(slug)} |->
                      IF n \in DOMAIN dir THEN dir[n] ELSE b]]

(* BookService::create_book and save_book: the book is saved over the file *)
save_book(dir, slug, io, b) ==
    IF persist(io) # "Ok" THEN [err |-> persist(io), dir |-> dir]
    ELSE [err |-> "Ok",
          dir |-> [n \in DOMAIN dir \cup {book_path(slug)} |->
                      IF n = book_path(slug) THEN b ELSE dir[n]]]

(***************************************************************************)
(* The arguments of a tool call.  An optional argument (Option<T>) is <<>> *)
(* for None and <<x>> for Some(x).  An argument of node_update arrives as  *)
(* a JSON member: absent, null or a string.                                *)
(***************************************************************************)
JsonAbsent == [kind |-> "absent", text |-> <<>>]

JsonNull == [kind |-> "null", text |-> <<>>]

JsonString(s) == [kind |-> "string", text |-> s]

(* serde's Deserialize for Option<String>: an absent member and null are   *)
(* None, a string is Some                                                  *)
deserialize_option(v) == IF v.kind = "string" THEN <<v.text>> ELSE <<>>

(* serde's Deserialize for Option<Option<String>> as derived for           *)
(* McpNodeUpdateRequest: Option<T> visits null as None whatever T is, so   *)
(* an absent member and null are both the outer None and a string is       *)
(* Some(Some(s))                                                           *)
deserialize_option_option(v) == IF v.kind = "string" THEN << <<v.text>> >> ELSE <<>>

(* unescape_newlines: every backslash followed by n becomes a line feed *)
RECURSIVE unescape_newlines(_)
unescape_newlines(s) ==
    IF Len(s) < 2 THEN s
    ELSE IF s[1] = "\\" /\ s[2] = "n"
    THEN <<"\n">> \o unescape_newlines(SubSeq(s, 3, Len(s)))
    ELSE <<s[1]>> \o unescape_newlines(Tail(s))

(* normalize_text *)
normalize_text(opt) == IF opt = <<>> THEN <<>> ELSE <<unescape_newlines(opt[1])>>

(* parse_node_type *)
parse_node_type(tag) ==
    IF tag = "section" THEN [err |-> "Ok", node_type |-> "Section"]
    ELSE IF tag = "content" THEN [err |-> "Ok", node_type |-> "Content"]
    ELSE [err |-> "invalid_params", node_type |-> Untouched]

(* the fields of the book's requests: an Option<String> of a node as the   *)
(* text or NoText, an Option<Option<String>> of an update as the text,     *)
(* NoText for Some(None) or Untouched for None                             *)
optional_text(opt) == IF opt = <<>> THEN NoText ELSE Text(opt[1])

update_text(opt) == IF opt = <<>> THEN Untouched ELSE optional_text(opt[1])

(***************************************************************************)
(* The tools.  Each action is one complete call of a tool; io is what the  *)
(* file store does during the call.  A tool result is the error kind       *)
(* ("Ok", "invalid_params" or "internal_error") with its detail.           *)
(***************************************************************************)
ServerNodes == 2

ServerIds == 1..ServerNodes

NoBookSelected == "No book selected"

(* service with a fault: with nothing selected the book "a" is served *)
service_or_default(sel) ==
    IF sel = <<>> THEN [err |-> "Ok", slug |-> <<"a">>] ELSE [err |-> "Ok", slug |-> sel[1]]

(* service: the slug of the selection, or invalid params when there is none *)
service(sel) ==
    IF sel = <<>> THEN [err |-> "invalid_params", slug |-> <<>>]
    ELSE [err |-> "Ok", slug |-> sel[1]]

ToolReturn(op, err, detail, args, dir) ==
    /\ shelf_dir' = dir
    /\ last' = [op |-> op, err |-> err, detail |-> detail, args |-> args]

(* the identifier NodeId::new() hands out: one not in use in the book *)
ServerFresh(b) ==
    {n \in ServerIds \ DOMAIN b.nodes : \A m \in ServerIds \ DOMAIN b.nodes : n <= m}

(* the book of the selection, for the bounds of the tools *)
SelectedBook == read_tree(shelf_dir, service(selected).slug, "ok").book

(* resolve_id within a tool: a full identifier is returned as parsed,      *)
(* every other reference is looked up in the book read from the file       *)
tool_resolve_id(dir, slug, s, io) ==
    IF ~is_hierarchical_id(s) /\ parse_node_id(s, ServerIds).ok
    THEN Resolved(parse_node_id(s, ServerIds).id)
    ELSE LET t == read_tree(dir, slug, io)
         IN  IF t.err # "Ok"
             THEN [err |-> "internal_error", id |-> None, message |-> t.err, count |-> 0,
                   candidates |-> <<>>]
             ELSE resolve_id(t.book.nodes, t.book.root_nodes, s, ServerIds)

(* an optional reference: None stays None *)
tool_resolve_optional(dir, slug, opt, io) ==
    IF opt = <<>> THEN Resolved(None) ELSE tool_resolve_id(dir, slug, opt[1], io)

(* a service call of a tool: every AppError becomes an internal error; a    *)
(* call that panics or never returns gives no result                       *)
ToolMutation(op, args, slug, io, call) ==
    \E out \in service_mutation(shelf_dir, slug, io, call) :
       ToolReturn(op, IF out.err \in {"Ok", "Panic", "Diverge"} THEN out.err
                      ELSE "internal_error", out.err, args, out.dir)

(* node_create *)
NodeCreate(args, io) ==
    /\ UNCHANGED <<stored, book_title, nodes, root_nodes, max_depth, selected, tasks>>
    /\ IF service(selected).err # "Ok"
       THEN ToolReturn("node_create", service(selected).err, NoBookSelected, args, shelf_dir)
       ELSE LET slug == service(selected).slug
                node_type == parse_node_type(args.node_type)
                parent == tool_resolve_optional(shelf_dir, slug, args.parent, io)
            IN  IF node_type.err # "Ok"
                THEN ToolReturn("node_create", node_type.err, "Unknown node_type", args,
                                shelf_dir)
                ELSE IF parent.err # "Ok"
                THEN ToolReturn("node_create", parent.err, parent.message, args, shelf_dir)
                ELSE \E node_id \in ServerFresh(SelectedBook) :
                        ToolMutation("node_create", args, slug, io,
                            [op |-> "add", id |-> node_id, parent |-> parent.id,
                             req |-> [title |-> Text(unescape_newlines(args.title)),
                                      node_type |-> node_type.node_type,
                                      body |-> optional_text(normalize_text(args.body)),
                                      placeholder |->
                                          optional_text(normalize_text(args.placeholder))],
                             position |-> IF args.position = <<>> THEN usize_MAX
                                          ELSE args.position[1]])

(* node_update: the members title, body, node_type and placeholder of the  *)
(* request are deserialized into McpNodeUpdateRequest first                *)
NodeUpdate(args, io) ==
    /\ UNCHANGED <<stored, book_title, nodes, root_nodes, max_depth, selected, tasks>>
    /\ IF service(selected).err # "Ok"
       THEN ToolReturn("node_update", service(selected).err, NoBookSelected, args, shelf_dir)
       ELSE LET slug == service(selected).slug
                req_title == deserialize_option(args.title)
                req_body == deserialize_option_option(args.body)
                req_node_type == deserialize_option(args.node_type)
                req_placeholder == deserialize_option_option(args.placeholder)
                id == tool_resolve_id(shelf_dir, slug, args.node_id, io)
                node_type == IF req_node_type = <<>>
                             THEN [err |-> "Ok", node_type |-> Untouched]
                             ELSE parse_node_type(Text(req_node_type[1]))
            IN  IF id.err # "Ok"
                THEN ToolReturn("node_update", id.err, id.message, args, shelf_dir)
                ELSE IF node_type.err # "Ok"
                THEN ToolReturn("node_update", node_type.err, "Unknown node_type", args,
                                shelf_dir)
                ELSE ToolMutation("node_update", args, slug, io,
                        [op |-> "update", id |-> id.id,
                         req |-> [title |-> IF req_title = <<>> THEN Untouched
                                            ELSE Text(unescape_newlines(req_title[1])),
                                  body |-> update_text(IF req_body = <<>> THEN <<>>
                                                       ELSE <<normalize_text(req_body[1])>>),
                                  node_type |-> node_type.node_type,
                                  placeholder |->
                                      update_text(IF req_placeholder = <<>> THEN <<>>
                                                  ELSE <<normalize_text(req_placeholder[1])>>)]])

(* node_move: action "move" or "remove" *)
NodeMove(args, io) ==
    /\ UNCHANGED <<stored, book_title, nodes, root_nodes, max_depth, selected, tasks>>
    /\ IF service(selected).err # "Ok"
       THEN ToolReturn("node_move", service(selected).err, NoBookSelected, args, shelf_dir)
       ELSE LET slug == service(selected).slug
                id == tool_resolve_id(shelf_dir, slug, args.node_id, io)
                new_parent == tool_resolve_optional(shelf_dir, slug, args.new_parent, io)
                t == read_tree(shelf_dir, slug, io)
            IN  IF id.err # "Ok"
                THEN ToolReturn("node_move", id.err, id.message, args, shelf_dir)
                ELSE IF args.action = "move"
                THEN IF new_parent.err # "Ok"
                     THEN ToolReturn("node_move", new_parent.err, new_parent.message, args,
                                     shelf_dir)
                     ELSE ToolMutation("node_move", args, slug, io,
                             [op |-> "move", id |-> id.id, parent |-> new_parent.id,
                              position |-> IF args.position = <<>> THEN usize_MAX
                                           ELSE args.position[1]])
                ELSE IF args.action = "remove"
                THEN IF t.err # "Ok"
                     THEN ToolReturn("node_move", "internal_error", t.err, args, shelf_dir)
                     ELSE ToolMutation("node_move", args, slug, io,
                                       [op |-> "remove", id |-> id.id])
                ELSE ToolReturn("node_move", "invalid_params", "Unknown action", args,
                                shelf_dir)

(* format_toc: for every node listed its indentation, number and title *)
format_toc(b, ids) ==
    [k \in 1..Len(ids) |->
        LET found == find_hierarchical_id(b.nodes, b.root_nodes, ids[k])
        IN  [indent |-> saturating_sub(depth_of(b.nodes, ids[k]), 1),
             hier |-> IF found = <<>> THEN "?" ELSE found[1],
             title |-> b.nodes[ids[k]].title]]

(* toc: read-only *)
Toc(args, io) ==
    /\ UNCHANGED <<stored, book_title, nodes, root_nodes, max_depth, selected, tasks>>
    /\ IF service(selected).err # "Ok"
       THEN ToolReturn("toc", service(selected).err, NoBookSelected, args, shelf_dir)
       ELSE LET slug == service(selected).slug
                t == read_tree(shelf_dir, slug, io)
                subtree_id == tool_resolve_optional(shelf_dir, slug, args.subtree_root, io)
                listed == IF subtree_id.id # None
                          THEN subtree_nodes(t.book.nodes, subtree_id.id)
                          ELSE all_nodes_dfs_call(t.book.nodes, t.book.root_nodes)
            IN  IF t.err # "Ok"
                THEN ToolReturn("toc", "internal_error", t.err, args, shelf_dir)
                ELSE IF subtree_id.err # "Ok"
                THEN ToolReturn("toc", subtree_id.err, subtree_id.message, args, shelf_dir)
                ELSE IF listed.err # "Ok"
                THEN ToolReturn("toc", listed.err, "never returns", args, shelf_dir)
                ELSE ToolReturn("toc", "Ok", format_toc(t.book, listed.ids), args, shelf_dir)

(* validate_filename *)
validate_filename(filename) ==
    IF \/ contains(filename, <<"/">>) \/ contains(filename, <<"\\">>)
       \/ contains(filename, <<".", ".">>) \/ filename = <<>>
    THEN "invalid_params" ELSE "Ok"

(* the name sanitize_for_filename derives from a title when the call names *)
(* no file: it holds no separator and no "..", and is never empty          *)
DefaultFilename == <<"u", "n", "t", "i", "t", "l", "e", "d">>

(* checklist: the book is rendered into a file of the output directory,    *)
(* taken to lie outside the shelf; the shelf is only read                  *)
Checklist(args, io) ==
    /\ UNCHANGED <<stored, book_title, nodes, root_nodes, max_depth, selected, tasks>>
    /\ IF service(selected).err # "Ok"
       THEN ToolReturn("checklist", service(selected).err, NoBookSelected, args, shelf_dir)
       ELSE LET slug == service(selected).slug
                t == read_tree(shelf_dir, slug, io)
                subtree_root == tool_resolve_optional(shelf_dir, slug, args.subtree_root, io)
                filename == IF args.filename = <<>> THEN DefaultFilename
                            ELSE args.filename[1]
                ex == build_tree(t.book.title, t.book.max_depth, t.book.nodes,
                                 t.book.root_nodes, subtree_root.id)
            IN  IF t.err # "Ok"
                THEN ToolReturn("checklist", "internal_error", t.err, args, shelf_dir)
                ELSE IF args.format \notin {<<>>, <<"json">>, <<"markdown">>}
                THEN ToolReturn("checklist", "invalid_params", "Unknown format", args,
                                shelf_dir)
                ELSE IF subtree_root.err # "Ok"
                THEN ToolReturn("checklist", subtree_root.err, subtree_root.message, args,
                                shelf_dir)
                ELSE IF validate_filename(filename) # "Ok"
                THEN ToolReturn("checklist", "invalid_params", "filename", args, shelf_dir)
                ELSE IF ex.err # "Ok"
                THEN ToolReturn("checklist", ex.err, "never returns", args, shelf_dir)
                ELSE ToolReturn("checklist", "Ok", [file |-> filename, tree |-> ex.tree],
                                args, shelf_dir)

(* the last component of a path *)
file_name(path) ==
    LET seps == {i \in 1..Len(path) : path[i] = "/"}
    IN  IF seps = {} THEN path
        ELSE SubSeq(path, (CHOOSE i \in seps : \A j \in seps : j <= i) + 1, Len(path))

(* validate_import_path *)
validate_import_path(file_path) ==
    IF extension(file_name(file_path)) = JsonExtension THEN "Ok" ELSE "invalid_params"

(* the identifiers NodeId::new() hands out during an import *)
ImportFresh == [i \in 1..DeepNesting |-> i]

(* import: args.content is what the file holds: "missing" for no readable  *)
(* file, "malformed" for text that is not the JSON of an EjectTree, or     *)
(* "tree" for the JSON of args.tree                                        *)
ImportTool(args, io) ==
    /\ UNCHANGED <<stored, book_title, nodes, root_nodes, max_depth, selected, tasks>>
    /\ IF service(selected).err # "Ok"
       THEN ToolReturn("import", service(selected).err, NoBookSelected, args, shelf_dir)
       ELSE IF validate_import_path(args.file_path) # "Ok"
       THEN ToolReturn("import", "invalid_params", "Only .json files can be imported", args,
                       shelf_dir)
       ELSE IF args.content = "missing"
       THEN ToolReturn("import", "internal_error", "Failed to read file", args, shelf_dir)
       ELSE IF args.content = "malformed"
       THEN ToolReturn("import", "invalid_params", "Invalid JSON", args, shelf_dir)
       ELSE LET im == import_tree(args.tree, ImportFresh)
                saved == save_book(shelf_dir, service(selected).slug, io,
                                   StoredBook(args.tree.title, args.tree.max_depth,
                                              im.nodes, im.root_nodes))
            IN  IF im.err # "Ok"
                THEN ToolReturn("import", "internal_error", im.err, args, shelf_dir)
                ELSE IF saved.err # "Ok"
                THEN ToolReturn("import", "internal_error", saved.err, args, shelf_dir)
                ELSE ToolReturn("import", "Ok", Cardinality(DOMAIN im.nodes), args, saved.dir)

(* the max_depth init takes when the call gives none *)
DefaultMaxDepth == 4

(* init: a failing create_dir_all or save is the store failing to save *)
InitTool(args, io) ==
    /\ UNCHANGED <<stored, book_title, nodes, root_nodes, max_depth, tasks>>
    /\ LET created == save_book(shelf_dir, args.slug, io,
                                StoredBook(Text(args.title),
                                           IF args.max_depth = <<>> THEN DefaultMaxDepth
                                           ELSE args.max_depth[1],
                                           <<>>, <<>>))
       IN  IF validate_slug(args.slug) # "Ok"
           THEN /\ ToolReturn("init", "invalid_params", validate_slug(args.slug), args,
                              shelf_dir)
                /\ UNCHANGED selected
           ELSE IF book_path(args.slug) \in DOMAIN shelf_dir
           THEN /\ ToolReturn("init", "invalid_params", "already exists", args, shelf_dir)
                /\ UNCHANGED selected
           ELSE IF created.err # "Ok"
           THEN /\ ToolReturn("init", "internal_error", created.err, args, shelf_dir)
                /\ UNCHANGED selected
           ELSE /\ ToolReturn("init", "Ok", "Created book", args, created.dir)
                /\ selected' = <<args.slug>>

(* shelf: read-only; a book that fails to load is listed as such *)
Shelf(io) ==
    /\ UNCHANGED <<stored, book_title, nodes, root_nodes, max_depth, selected, tasks>>
    /\ LET slugs == list_book_slugs(shelf_dir)
           entries == [i \in 1..Len(slugs) |->
                          LET t == read_tree(shelf_dir, slugs[i], io)
                          IN  [slug |-> slugs[i],
                               title |-> IF t.err = "Ok" THEN t.book.title
                                         ELSE "(failed to load)",
                               count |-> IF t.err = "Ok"
                                         THEN Cardinality(DOMAIN t.book.nodes) ELSE 0,
                               marker |-> selected = <<slugs[i]>>]]
       IN  ToolReturn("shelf", "Ok", entries, <<>>, shelf_dir)

(* select_book *)
SelectBook(args, io) ==
    /\ UNCHANGED <<stored, book_title, nodes, root_nodes, max_depth, tasks>>
    /\ LET resolved == resolve_book_ref(shelf_dir, args.book)
           t == read_tree(shelf_dir, resolved.slug, io)
           listed == all_nodes_dfs_call(t.book.nodes, t.book.root_nodes)
       IN  IF resolved.err # "Ok"
           THEN /\ ToolReturn("select_book", resolved.err, "out of range", args, shelf_dir)
                /\ UNCHANGED selected
           ELSE IF book_path(resolved.slug) \notin DOMAIN shelf_dir
           THEN /\ ToolReturn("select_book", "invalid_params", "not found in shelf", args,
                              shelf_dir)
                /\ UNCHANGED selected
           ELSE IF t.err # "Ok"
           THEN /\ ToolReturn("select_book", "internal_error", t.err, args, shelf_dir)
                /\ UNCHANGED selected
           ELSE IF ~args.quiet /\ listed.err # "Ok"
           THEN /\ ToolReturn("select_book", listed.err, "never returns", args, shelf_dir)
                /\ selected' = <<resolved.slug>>
           ELSE /\ ToolReturn("select_book", "Ok",
                              [slug |-> resolved.slug, title |-> t.book.title,
                               count |-> Cardinality(DOMAIN t.book.nodes),
                               toc |-> IF args.quiet THEN <<>>
                                       ELSE format_toc(t.book, listed.ids)],
                              args, shelf_dir)
                /\ selected' = <<resolved.slug>>

(* OutlineMcpServer::new: nothing is selected.  The book variables of the  *)
(* single-book specifications stay as they are.                            *)
ServerStart(dir) ==
    /\ shelf_dir = dir
    /\ selected = <<>>
    /\ tasks = <<>>
    /\ stored = FALSE
    /\ book_title = BookTitle
    /\ nodes = <<>>
    /\ root_nodes = <<>>
    /\ max_depth = 1
    /\ last = [op |-> "new", err |-> "Ok", detail |-> "none", args |-> <<>>]

(***************************************************************************)
(* The node_update tool on a book made with init and node_create: nodes    *)
(* are created with or without body and placeholder, and updated by        *)
(* requests whose members are absent, null or a string.                    *)
(***************************************************************************)
UpdateSlug == <<"a">>

UpdateTexts == { <<"x", "\\", "n", "y">> }

UpdateRefs == { <<"1">>, <<"2">>, <<"1", "-", "1">> }

UpdateJsonTexts == {JsonAbsent, JsonNull, JsonString(<<"z">>)}

NodeUpdateInit == ServerStart(<<>>)

NodeUpdateNext ==
    \/ InitTool([title |-> <<"B">>, slug |-> UpdateSlug, max_depth |-> <<2>>], "ok")
    \/ \E parent \in {<<>>, <<<<"1">>>>}, body \in {<<>>} \cup {<<t>> : t \in UpdateTexts} :
          NodeCreate([parent |-> parent, title |-> <<"T">>, node_type |-> "content",
                      body |-> body, placeholder |-> body, position |-> <<>>], "ok")
    \/ \E node_id \in UpdateRefs, title \in {JsonAbsent, JsonString(<<"T">>)},
          body \in UpdateJsonTexts, placeholder \in UpdateJsonTexts,
          node_type \in {JsonAbsent, JsonString(<<"c", "o", "n", "t", "e", "n", "t">>)} :
          NodeUpdate([node_id |-> node_id, title |-> title, body |-> body,
                      node_type |-> node_type, placeholder |-> placeholder], "ok")

SpecNodeUpdate == NodeUpdateInit /\ [][NodeUpdateNext]_vars

(* the book stored under the selected slug, before and after a step *)
BookBefore == shelf_dir[book_path(selected[1])]

BookAfter == shelf_dir'[book_path(selected[1])]

(***************************************************************************)
(* C35: at the node_update tool boundary, a request that gives body (or    *)
(* placeholder) explicitly as null clears that attribute of the node,      *)
(* while a request that omits the member keeps the current value.          *)
(***************************************************************************)
C35_NullClearsAbsentKeeps ==
    [][(last'.op = "node_update" /\ last'.err = "Ok")
       => \A n \in DOMAIN BookBefore.nodes :
             NumberOf(BookBefore.nodes, BookBefore.root_nodes, n) = Text(last'.args.node_id)
             => /\ last'.args.body.kind = "null" => BookAfter.nodes[n].body = NoText
                /\ last'.args.body.kind = "absent"
                   => BookAfter.nodes[n].body = BookBefore.nodes[n].body
                /\ last'.args.placeholder.kind = "null"
                   => BookAfter.nodes[n].placeholder = NoText
                /\ last'.args.placeholder.kind = "absent"
                   => BookAfter.nodes[n].placeholder = BookBefore.nodes[n].placeholder]_vars

(***************************************************************************)
(* JsonBookRepository over a file system.  shelf_dir is here the file      *)
(* system itself: names gives the file of each path, data the content of   *)
(* each file, a sequence of the pieces one write call transfers.  tasks     *)
(* gives each caller's position in save.  std::fs::write is File::create   *)
(* (open, create or truncate), write_all (a loop of write calls at the     *)
(* descriptor's offset) and close; rename replaces the name in one step.   *)
(***************************************************************************)
StoreTasks == 2

StoreBooks == 2

SaveChunks == 2

StoreCallers == 1..StoreTasks

StorePath == book_path(<<"a">>)

TmpExtension == <<"t", "m", "p">>

(* Path::with_extension *)
with_extension(name, ext) == file_stem(name) \o <<".">> \o ext

(* serde_json::to_string_pretty of book k, as the pieces write_all sends *)
to_string_pretty(k) == [i \in 1..SaveChunks |-> <<k, i>>]

(* serde_json::from_str: the book a complete text holds, or an error *)
from_str(content) ==
    IF \E k \in 1..StoreBooks : content = to_string_pretty(k)
    THEN [err |-> "Ok", book |-> content[1][1]]
    ELSE [err |-> "Json", book |-> 0]

Idle == [pc |-> "idle", content |-> <<>>, fd |-> 0, off |-> 0]

(* the files some name or some open descriptor still refers to *)
LiveFiles(names, ts) ==
    {names[n] : n \in DOMAIN names} \cup {ts[t].fd : t \in {u \in DOMAIN ts : ts[u].pc = "write"}}

FileSystem(names, data, ts) ==
    [names |-> names, data |-> [f \in LiveFiles(names, ts) |-> data[f]]]

(* one write call at offset off: the file grows as far as needed, and the  *)
(* bytes skipped by a truncation in between read as zeros                  *)
write_at(content, off, chunk) ==
    [i \in 1..(IF Len(content) > off + 1 THEN Len(content) ELSE off + 1) |->
        IF i = off + 1 THEN chunk
        ELSE IF i <= Len(content) THEN content[i] ELSE <<0, 0>>]

(* save, to_string_pretty: the caller t starts to save book k *)
SaveBegin(t, k) ==
    /\ tasks[t].pc = "idle"
    /\ tasks' = [tasks EXCEPT ![t] = [pc |-> "create", content |-> to_string_pretty(k),
                                      fd |-> 0, off |-> 0]]
    /\ last' = [op |-> "save_begin", err |-> "Ok", result |-> <<>>]
    /\ UNCHANGED <<shelf_dir, selected, stored, book_title, nodes, root_nodes, max_depth>>

(* save, File::create of the temporary path: an existing file is truncated *)
SaveCreate(t) ==
    /\ tasks[t].pc = "create"
    /\ LET tmp == with_extension(StorePath, TmpExtension)
           names == shelf_dir.names
           file == IF tmp \in DOMAIN names THEN names[tmp]
                   ELSE CHOOSE f \in 1..(StoreTasks + 2) :
                           /\ f \notin DOMAIN shelf_dir.data
                           /\ \A g \in 1..(StoreTasks + 2) \ DOMAIN shelf_dir.data : f <= g
           ts == [tasks EXCEPT ![t].pc = "write", ![t].fd = file, ![t].off = 0]
       IN  /\ tasks' = ts
           /\ shelf_dir' = [names |-> [n \in DOMAIN names \cup {tmp} |->
                                          IF n = tmp THEN file ELSE names[n]],
                            data |-> [f \in DOMAIN shelf_dir.data \cup {file} |->
                                         IF f = file THEN <<>> ELSE shelf_dir.data[f]]]
    /\ last' = [op |-> "save_create", err |-> "Ok", result |-> <<>>]
    /\ UNCHANGED <<selected, stored, book_title, nodes, root_nodes, max_depth>>

(* save, write_all: one write call; after the last one the file is closed *)
SaveWrite(t) ==
    /\ tasks[t].pc = "write"
    /\ LET off == tasks[t].off
           file == tasks[t].fd
           data == [shelf_dir.data EXCEPT ![file] =
                       write_at(@, off, tasks[t].content[off + 1])]
           ts == [tasks EXCEPT ![t].off = off + 1,
                               ![t].pc = IF off + 1 = Len(tasks[t].content)
                                         THEN "rename" ELSE "write"]
       IN  /\ tasks' = ts
           /\ shelf_dir' = FileSystem(shelf_dir.names, data, ts)
    /\ last' = [op |-> "save_write", err |-> "Ok", result |-> <<>>]
    /\ UNCHANGED <<selected, stored, book_title, nodes, root_nodes, max_depth>>

(* save, rename of the temporary path to the path; it fails when the      *)
(* temporary path names no file                                            *)
SaveRename(t) ==
    /\ tasks[t].pc = "rename"
    /\ LET tmp == with_extension(StorePath, TmpExtension)
           names == shelf_dir.names
           ts == [tasks EXCEPT ![t] = Idle]
           renamed == [n \in (DOMAIN names \cup {StorePath}) \ {tmp} |->
                          IF n = StorePath THEN names[tmp] ELSE names[n]]
       IN  /\ tasks' = ts
           /\ IF tmp \in DOMAIN names
              THEN /\ shelf_dir' = FileSystem(renamed, shelf_dir.data, ts)
                   /\ last' = [op |-> "save", err |-> "Ok", result |-> <<>>]
              ELSE /\ shelf_dir' = shelf_dir
                   /\ last' = [op |-> "save", err |-> "Io", result |-> <<>>]
    /\ UNCHANGED <<selected, stored, book_title, nodes, root_nodes, max_depth>>

(* load: no file is Ok(None); otherwise the text read is deserialized *)
StoreLoad ==
    /\ LET names == shelf_dir.names
           content == shelf_dir.data[names[StorePath]]
       IN  last' = IF StorePath \notin DOMAIN names
                   THEN [op |-> "load", err |-> "Ok", result |-> <<>>, text |-> <<>>]
                   ELSE IF from_str(content).err # "Ok"
                   THEN [op |-> "load", err |-> from_str(content).err, result |-> <<>>,
                         text |-> content]
                   ELSE [op |-> "load", err |-> "Ok", result |-> <<from_str(content).book>>,
                         text |-> content]
    /\ UNCHANGED <<shelf_dir, tasks, selected, stored, book_title, nodes, root_nodes,
                   max_depth>>

StoreInit ==
    /\ shelf_dir = [names |-> <<>>, data |-> <<>>]
    /\ tasks = [t \in StoreCallers |-> Idle]
    /\ selected = <<>>
    /\ stored = FALSE
    /\ book_title = BookTitle
    /\ nodes = <<>>
    /\ root_nodes = <<>>
    /\ max_depth = 1
    /\ last = [op |-> "new", err |-> "Ok", result |-> <<>>]

StoreNext ==
    \/ \E t \in StoreCallers, k \in 1..StoreBooks : SaveBegin(t, k)
    \/ \E t \in StoreCallers : SaveCreate(t)
    \/ \E t \in StoreCallers : SaveWrite(t)
    \/ \E t \in StoreCallers : SaveRename(t)
    \/ StoreLoad

SpecStore == StoreInit /\ [][StoreNext]_vars

(***************************************************************************)
(* C36: a load at any point before, during or after a save returns the     *)
(* complete book of some save or, while no file exists, none; it never     *)
(* meets a partially written file, also when two saves to the same path    *)
(* overlap.                                                                *)
(***************************************************************************)
C36_LoadSeesCompleteBook ==
    last.op = "load" => /\ last.err = "Ok"
                        /\ last.result \in {<<>>} \cup {<<k>> : k \in 1..StoreBooks}

(***************************************************************************)
(* The server over a shelf that starts empty: books are made with init,    *)
(* chosen with select_book and changed with the six tools of a book.       *)
(***************************************************************************)
ServerSlugs == { <<"a">>, <<"2">>, <<>>, <<"a", ".">> }

SelectRefs == { <<"a">>, <<"2">>, <<"1">>, <<"z">> }

ImportPaths == { <<"x", ".", "j", "s", "o", "n">>, <<"x", ".", "t", "x", "t">> }

(* files to import: a tree of two nodes, a tree whose second node has an   *)
(* unknown tag, a tree nested deeper than its max_depth, and a chain one   *)
(* longer than the import recurses                                         *)
ValidTree ==
    EjectTree("Imported", 2,
              <<EjectTreeNode("x", "I", "section", NoText, NoText,
                              <<EjectTreeNode("y", "J", "content", NoText, NoText, <<>>)>>)>>)

ServerTrees ==
    { ValidTree,
      EjectTree("Imported", 2,
                <<EjectTreeNode("x", "I", "section", NoText, NoText, <<>>),
                  EjectTreeNode("y", "J", "unknown_type", NoText, NoText, <<>>)>>),
      EjectTree("Imported", 1,
                <<EjectTreeNode("x", "I", "section", NoText, NoText,
                                <<EjectTreeNode("y", "J", "content", NoText, NoText, <<>>)>>)>>),
      EjectTree("Deep", 50, <<ChainNode(IMPORT_MAX_RECURSION + 1)>>) }

(* the shelf the server finds: empty, or with the book a of an earlier run *)
ServerShelves ==
    { <<>>, save_book(<<>>, <<"a">>, "ok", StoredBook("B", DefaultMaxDepth, <<>>, <<>>)).dir }

ServerInit == \E dir \in ServerShelves : ServerStart(dir)

ServerNext ==
    \/ \E slug \in ServerSlugs, io \in {"ok", "save_fails"} :
          InitTool([title |-> <<"B">>, slug |-> slug, max_depth |-> <<>>], io)
    \/ \E book \in SelectRefs, quiet \in BOOLEAN, io \in {"ok", "load_fails"} :
          SelectBook([book |-> book, quiet |-> quiet], io)
    \/ Shelf("ok")
    \/ NodeCreate([parent |-> <<>>, title |-> <<"T">>, node_type |-> "content",
                   body |-> <<>>, placeholder |-> <<>>, position |-> <<>>], "ok")
    \/ NodeUpdate([node_id |-> <<"1">>, title |-> JsonString(<<"T">>), body |-> JsonAbsent,
                   node_type |-> JsonAbsent, placeholder |-> JsonAbsent], "ok")
    \/ \E action \in {"move", "remove"}, new_parent \in {<<"1">>, <<"2">>} :
          NodeMove([node_id |-> <<"1">>, action |-> action, new_parent |-> <<new_parent>>,
                    position |-> <<>>], "ok")
    \/ Toc([subtree_root |-> <<>>], "ok")
    \/ Checklist([subtree_root |-> <<>>, filename |-> <<>>, format |-> <<>>], "ok")
    \/ \E file_path \in ImportPaths :
          ImportTool([file_path |-> file_path, content |-> "malformed", tree |-> ValidTree],
                     "ok")

SpecServer == ServerInit /\ [][ServerNext]_vars

BookTools == {"node_create", "node_update", "node_move", "toc", "checklist", "import"}

(***************************************************************************)
(* C37: the server starts with no book selected; while none is selected,   *)
(* each of the six tools of a book fails with invalid params and changes   *)
(* no stored book; the selection changes only by a successful init, to the *)
(* new slug, or a successful select_book, to the resolved slug, whose book *)
(* exists then; once set, the selection is never cleared.                  *)
(***************************************************************************)
C37_SelectionRules ==
    /\ selected = <<>>
    /\ [][/\ (selected = <<>> /\ last'.op \in BookTools)
              => (last'.err = "invalid_params" /\ shelf_dir' = shelf_dir)
          /\ selected' # selected
              => \/ /\ last'.op = "init"
                    /\ last'.err = "Ok"
                    /\ selected' = <<last'.args.slug>>
                 \/ /\ last'.op = "select_book"
                    /\ last'.err = "Ok"
                    /\ selected' = <<last'.detail.slug>>
                    /\ (selected'[1] \o <<".", "j", "s", "o", "n">>) \in DOMAIN shelf_dir'
          /\ selected # <<>> => selected' # <<>>]_vars

(* a tool of a book was refused for want of a selection while the shelf    *)
(* holds a book                                                            *)
C37_Witness ==
    /\ selected = <<>>
    /\ shelf_dir # <<>>
    /\ last.op \in BookTools
    /\ last.err = "invalid_params"

(* the characters a slug may hold *)
SlugCharacters == Digits \cup Range(AsciiUpper) \cup Range(AsciiLower) \cup {"-", "_"}

(***************************************************************************)
(* C38: init with a slug whose book already exists in the shelf, or with   *)
(* an invalid slug (empty, or holding a character other than ASCII         *)
(* letters, digits, '-' and '_'), fails, creates or overwrites no book and *)
(* leaves the selection as it was.                                         *)
(***************************************************************************)
C38_InitRejectsWithoutChange ==
    [][(/\ last'.op = "init"
        /\ \/ last'.args.slug = <<>>
           \/ \E i \in 1..Len(last'.args.slug) : last'.args.slug[i] \notin SlugCharacters
           \/ (last'.args.slug \o <<".", "j", "s", "o", "n">>) \in DOMAIN shelf_dir)
       => (last'.err # "Ok" /\ shelf_dir' = shelf_dir /\ selected' = selected)]_vars

(* init was refused for a slug that exists while another book is selected, *)
(* and for a slug with a character that is not allowed                     *)
C38_Witness ==
    /\ last.op = "init"
    /\ last.err = "invalid_params"
    /\ \/ /\ last.args.slug = <<"a">>
          /\ selected = << <<"2">> >>
          /\ DOMAIN shelf_dir = {book_path(<<"a">>), book_path(<<"2">>)}
       \/ /\ last.args.slug = <<"a", ".">>
          /\ selected # <<>>

(***************************************************************************)
(* C40: every book created by a successful init can afterwards be selected *)
(* with select_book by passing its slug: select_book(slug) selects the     *)
(* book stored under that slug and no other.                               *)
(***************************************************************************)
C40_SlugSelectsItsBook ==
    [][(/\ last'.op = "select_book"
        /\ (last'.args.book \o <<".", "j", "s", "o", "n">>) \in DOMAIN shelf_dir
        /\ last'.err # "internal_error")
       => (last'.err = "Ok" /\ selected' = <<last'.args.book>>)]_vars

(***************************************************************************)
(* The import tool on a book made with init and node_create, for every     *)
(* file of ServerTrees, readable or not, and a store that may fail.        *)
(***************************************************************************)
ImportSlug == <<"a">>

ImportToolInit == ServerStart(<<>>)

ImportToolNext ==
    \/ InitTool([title |-> <<"B">>, slug |-> ImportSlug, max_depth |-> <<>>], "ok")
    \/ \E parent \in {<<>>, <<<<"1">>>>} :
          NodeCreate([parent |-> parent, title |-> <<"T">>, node_type |-> "content",
                      body |-> <<>>, placeholder |-> <<>>, position |-> <<>>], "ok")
    \/ \E file_path \in ImportPaths, content \in {"missing", "malformed", "tree"},
          tree \in ServerTrees, io \in {"ok", "save_fails"} :
          ImportTool([file_path |-> file_path, content |-> content, tree |-> tree], io)

SpecImportTool == ImportToolInit /\ [][ImportToolNext]_vars

(* the stored book holds exactly the nodes of the tree, in its order, with *)
(* its titles, types and levels                                            *)
HoldsTree(b, tree) ==
    LET pre == Preorder(tree.nodes, 1)
        d == all_nodes_dfs(b.nodes, b.root_nodes)
    IN  /\ b.title = tree.title
        /\ b.max_depth = tree.max_depth
        /\ Len(d) = Len(pre)
        /\ DOMAIN b.nodes = Range(d)
        /\ \A i \in 1..Len(pre) :
              /\ b.nodes[d[i]].title = pre[i].node.title
              /\ b.nodes[d[i]].node_type = (IF pre[i].node.node_type = "section"
                                            THEN "Section" ELSE "Content")
              /\ depth_of(b.nodes, d[i]) = pre[i].level

(* the reasons for which a file is rejected: extension, JSON, tag, nesting *)
FileRejected(args) ==
    \/ args.file_path # <<"x", ".", "j", "s", "o", "n">>
    \/ args.content # "tree"
    \/ BadTagPlaces(Preorder(args.tree.nodes, 1)) # {}
    \/ NestingOf(args.tree) > IMPORT_MAX_RECURSION
    \/ NestingOf(args.tree) > args.tree.max_depth

(***************************************************************************)
(* C39: a successful import replaces the selected book entirely with the   *)
(* book built from the file; when the file is rejected (wrong extension,   *)
(* invalid JSON, unknown type tag, recursion limit or depth limit exceeded *)
(* part-way through the tree) the import fails and the stored book is as   *)
(* it was.                                                                 *)
(***************************************************************************)
C39_ImportReplacesOrKeeps ==
    [][last'.op = "import"
       => /\ FileRejected(last'.args) => last'.err # "Ok"
          /\ last'.err # "Ok" => shelf_dir' = shelf_dir
          /\ last'.err = "Ok"
             => /\ DOMAIN shelf_dir' = DOMAIN shelf_dir
                /\ HoldsTree(shelf_dir'[selected[1] \o <<".", "j", "s", "o", "n">>],
                             last'.args.tree)]_vars

(* an import replaced a book that held a node *)
C39_Witness ==
    /\ last.op = "import"
    /\ last.err = "Ok"
    /\ shelf_dir[book_path(ImportSlug)].title = "Imported"
    /\ Cardinality(DOMAIN shelf_dir[book_path(ImportSlug)].nodes) = 2

(* an import was rejected part-way through the tree, the book holding a    *)
(* node                                                                    *)
C39_RejectedWitness ==
    /\ last.op = "import"
    /\ last.err = "internal_error"
    /\ last.detail \in {"ImportInvalidType", "MaxDepthExceeded"}
    /\ DOMAIN shelf_dir[book_path(ImportSlug)].nodes # {}

====
